---- MODULE Spec2Model ----
(***************************************************************************)
(* A model of the HStream add-on (src/addon.js): the expiring caches, the  *)
(* catalog builder fetchCatalog, the page fetcher fetchPage, the lookup    *)
(* loop of the meta and stream handlers, and the stream resolver           *)
(* fetchVideoDetails.                                                      *)
(*                                                                         *)
(* Time is counted in hours, so the three cache TTLs are 3, 6 and 1.       *)
(* The paging constants of the source (500 records per page, 20 pages, 5   *)
(* pages per batch) are scaled down to values TLC can enumerate; they keep *)
(* the names of the source.                                                *)
(***************************************************************************)
EXTENDS Integers, Sequences, FiniteSets, TLC

VARIABLES
    now,          \* Date.now(), in hours
    catalogCache, \* catalogCache.data : key -> [value, expires]
    streamCache,  \* streamCache.data  : key -> [value, expires]
    pc,           \* where the handler in progress stands ("idle": none)
    req,          \* the request being served
    loc,          \* the locals of the handler in progress
    ret,          \* the response of the last finished handler
    prev,         \* history: the handler call that finished before the last one started
    calls,        \* number of handler calls started so far
    site,         \* the listing the site serves
    zeroRuns,     \* history: stream-cache keys whose entry comes from a run with no valid stream
    rin,          \* resolver study: the inputs of the resolution under study
    rout          \* resolver study: its outputs

vars == <<now, catalogCache, streamCache, pc, req, loc, ret, prev, calls, site, zeroRuns, rin, rout>>

----------------------------------------------------------------------------
(* Bounds of the model *)

\* scaled stand-ins for the paging constants of src/addon.js:106-108
ITEMS_PER_PAGE == 2
MAX_PAGES == 3
CONCURRENT_PAGES == 2

\* the cache TTLs, in hours (src/addon.js:102-104)
CATALOG_TTL == 3
STREAM_TTL == 1

\* the clock stops here
MaxTime == 4

\* handler calls per behaviour
MaxCalls == 2

----------------------------------------------------------------------------
(* Sequences *)

Range(s) == {s[i] : i \in 1..Len(s)}

RECURSIVE Flat(_)
\* Array.prototype.flat over a sequence of sequences
Flat(ss) == IF ss = <<>> THEN <<>> ELSE Head(ss) \o Flat(Tail(ss))

RECURSIVE SeqsUpTo(_, _)
\* all sequences over S of length at most n
SeqsUpTo(S, n) ==
    IF n = 0 THEN {<<>>}
    ELSE LET shorter == SeqsUpTo(S, n - 1)
         IN  shorter \cup {Append(s, x) : s \in {t \in shorter : Len(t) = n - 1}, x \in S}

Min(a, b) == IF a < b THEN a ELSE b
Max(a, b) == IF a > b THEN a ELSE b

\* Array.prototype.slice(start, end) for 0 <= start (0-based, end exclusive)
Slice(s, start, end) ==
    LET e == Min(Max(end, 0), Len(s))
        b == Min(start, Len(s))
    IN  IF e <= b THEN <<>> ELSE SubSeq(s, b + 1, e)

\* Array.prototype.find, as the index of the first match (0: none)
FindIndex(s, id) ==
    IF \E i \in 1..Len(s) : s[i].id = id
    THEN CHOOSE i \in 1..Len(s) : s[i].id = id /\ \A j \in 1..(i - 1) : s[j].id # id
    ELSE 0

----------------------------------------------------------------------------
(* class Cache (src/addon.js:79-100), the table as a function on its keys *)

NoValue == [hit |-> FALSE]

\* a get that already misses at the instant of expiry
CacheGetEarly(data, key, t) ==
    IF key \notin DOMAIN data THEN NoValue
    ELSE IF t >= data[key].expires THEN NoValue
    ELSE [hit |-> TRUE, value |-> data[key].value]

\* Cache.get: the value returned
CacheGet(data, key, t) ==
    IF key \notin DOMAIN data THEN NoValue
    ELSE IF t > data[key].expires THEN NoValue
    ELSE [hit |-> TRUE, value |-> data[key].value]

\* a get that never deletes
CacheAfterGetKeep(data, key, t) ==
    data

\* Cache.get: the table it leaves (an expired entry is deleted)
CacheAfterGet(data, key, t) ==
    IF key \in DOMAIN data /\ t > data[key].expires
    THEN [k \in DOMAIN data \ {key} |-> data[k]]
    ELSE data

\* Cache.set; customTtl = 0 stands for every falsy override (null, undefined, 0)
CacheSet(data, key, value, customTtl, ttl, t) ==
    LET expires == t + (IF customTtl # 0 THEN customTtl ELSE ttl)
    IN  [k \in DOMAIN data \cup {key} |->
            IF k = key THEN [value |-> value, expires |-> expires] ELSE data[k]]

\* `catalogCache.get(key) || []`
CachedItems(data, key, t) ==
    LET got == CacheGet(data, key, t) IN IF got.hit THEN got.value ELSE <<>>

----------------------------------------------------------------------------
(* URLs, as sequences of tokens *)

\* the slugs of the detail pages, in the order the site lists them
AllSlugs == <<"v1", "v2", "v3", "v4", "v5", "v6", "v7", "v8", "v9">>

\* the href of the listing anchor of the detail page with slug k
DetailHref(k) == <<"https://", "hstream.moe", "/hentai/", k>>

Includes(url, tok) == \E i \in 1..Len(url) : url[i] = tok

\* fetchCatalog's globalCacheKey
GlobalCacheKey(search, catalogType) ==
    IF search # "" THEN <<"search", search>> ELSE <<"catalog", catalogType>>

\* the handlers' cacheKey: `catalog-${catalogType}-all`, catalogType = id.split(':')[1]
IdCacheKey(id) == <<"catalog", id[2]>>

----------------------------------------------------------------------------
(* The site: a listing of n detail pages served `size` per page; `twice`   *)
(* says that every container is matched by two of fetchPage's selectors.   *)

Sites ==
    {[n |-> 0, size |-> 2, twice |-> FALSE],
     [n |-> 3, size |-> 2, twice |-> FALSE],
     [n |-> 7, size |-> 2, twice |-> FALSE],
     [n |-> 3, size |-> 1, twice |-> FALSE],
     [n |-> 7, size |-> 3, twice |-> FALSE],
     [n |-> 2, size |-> 2, twice |-> TRUE]}

Anchor(k) == [kind |-> "link", href |-> DetailHref(k)]
OtherAnchor == [kind |-> "link", href |-> <<"https://", "hstream.moe", "/tags/">>]
NoAnchor == [kind |-> "nolink"]
Broken == [kind |-> "bad"]

\* the containers fetchPage's selectors collect on listing page pageNum: the
\* anchors of the page's detail pages, among containers that yield no record
PageDom(s, pageNum) ==
    LET first == (pageNum - 1) * s.size + 1
        last == Min(pageNum * s.size, s.n)
        once == IF last < first THEN <<>>
                ELSE <<NoAnchor>> \o [i \in 1..(last - first + 1) |-> Anchor(AllSlugs[first + i - 1])]
                        \o <<OtherAnchor, Broken>>
    IN  IF s.twice THEN once \o once ELSE once

----------------------------------------------------------------------------
(* fetchPage (src/addon.js:235-400) *)

\* the body of containers.forEach (src/addon.js:310-389): the records one container adds
ExtractItem(c, catalogType) ==
    IF c.kind # "link" THEN <<>>                         \* no link, or caught error
    ELSE IF ~Includes(c.href, "/hentai/") THEN <<>>
    ELSE LET at == CHOOSE i \in 1..Len(c.href) : c.href[i] = "/hentai/"
         IN  IF at = Len(c.href) THEN <<>>               \* `if (!id) return`
             ELSE <<[id |-> <<"hstream", catalogType, c.href[at + 1]>>, link |-> c.href]>>

RECURSIVE ExtractAll(_, _)
ExtractAll(dom, catalogType) ==
    IF dom = <<>> THEN <<>>
    ELSE ExtractItem(Head(dom), catalogType) \o ExtractAll(Tail(dom), catalogType)

NavOutcomes == {"200", "500", "err"}

RECURSIVE NavLoop(_, _, _, _)
\* the retry loop (src/addon.js:263-280) over the outcomes of the attempts still
\* to come: the last response, whether the loop threw, attempts made, delays waited
NavLoop(nav, retries, response, st) ==
    IF retries = 0 THEN [response |-> response, threw |-> FALSE,
                         attempts |-> st.attempts, delays |-> st.delays]
    ELSE LET a == Head(nav)
             n == st.attempts + 1
         IN  IF a = "200"
             THEN [response |-> "200", threw |-> FALSE, attempts |-> n, delays |-> st.delays]
             ELSE IF a = "500"
             THEN NavLoop(Tail(nav), retries - 1, "500",
                          [attempts |-> n,
                           delays |-> st.delays + (IF retries - 1 > 0 THEN 1 ELSE 0)])
             ELSE IF retries - 1 = 0
             THEN [response |-> response, threw |-> TRUE, attempts |-> n, delays |-> st.delays]
             ELSE NavLoop(Tail(nav), retries - 1, response,
                          [attempts |-> n, delays |-> st.delays + 1])

\* a fetchPage without its outer catch: a navigation that throws on its last
\* attempt leaves the function
FetchPageFlowThrows(e) ==
    IF ~e.newPage
    THEN [threw |-> TRUE, extracted |-> FALSE, attempts |-> 0, delays |-> 0,
          opened |-> FALSE, closed |-> FALSE]
    ELSE LET nav == NavLoop(e.nav, 3, "none", [attempts |-> 0, delays |-> 0])
         IN  [threw |-> nav.threw,
              extracted |-> ~nav.threw /\ nav.response = "200" /\ e.evalOk,
              attempts |-> nav.attempts, delays |-> nav.delays,
              opened |-> TRUE, closed |-> TRUE]

\* a fetchPage whose page.close() is awaited without a catch
FetchPageFlowLoud(e) ==
    IF ~e.newPage
    THEN [threw |-> TRUE, extracted |-> FALSE, attempts |-> 0, delays |-> 0,
          opened |-> FALSE, closed |-> FALSE]
    ELSE LET nav == NavLoop(e.nav, 3, "none", [attempts |-> 0, delays |-> 0])
         IN  [threw |-> ~e.close,
              extracted |-> e.close /\ ~nav.threw /\ nav.response = "200" /\ e.evalOk,
              attempts |-> nav.attempts, delays |-> nav.delays,
              opened |-> TRUE, closed |-> TRUE]

\* a fetchPage that gives the page up when the wait for the grid times out
FetchPageFlowStrict(e) ==
    IF ~e.newPage
    THEN [threw |-> TRUE, extracted |-> FALSE, attempts |-> 0, delays |-> 0,
          opened |-> FALSE, closed |-> FALSE]
    ELSE LET nav == NavLoop(e.nav, 3, "none", [attempts |-> 0, delays |-> 0])
         IN  [threw |-> FALSE,
              extracted |-> ~nav.threw /\ nav.response = "200" /\ e.wait /\ e.evalOk,
              attempts |-> nav.attempts, delays |-> nav.delays,
              opened |-> TRUE, closed |-> TRUE]

\* the control flow of fetchPage under the outcomes e of its awaits: e.newPage,
\* e.nav (three navigation outcomes), e.wait, e.evalOk, e.close
FetchPageFlow(e) ==
    IF ~e.newPage
    THEN [threw |-> TRUE, extracted |-> FALSE, attempts |-> 0, delays |-> 0,
          opened |-> FALSE, closed |-> FALSE]
    ELSE LET nav == NavLoop(e.nav, 3, "none", [attempts |-> 0, delays |-> 0])
         IN  [threw |-> FALSE,
              \* thrown navigation, non-200 and a throwing evaluate all end in `return []`
              extracted |-> ~nav.threw /\ nav.response = "200" /\ e.evalOk,
              attempts |-> nav.attempts, delays |-> nav.delays,
              opened |-> TRUE, closed |-> TRUE]

\* fetchPage: whether it threw, and the records it returns
FetchPage(catalogType, dom, e) ==
    LET flow == FetchPageFlow(e)
    IN  [threw |-> flow.threw,
         items |-> IF flow.extracted THEN ExtractAll(dom, catalogType) ELSE <<>>]

\* the outcomes of the awaits of one fetchPage
PageEnvs ==
    [newPage : BOOLEAN, nav : [1..3 -> NavOutcomes], wait : BOOLEAN,
     evalOk : BOOLEAN, close : BOOLEAN]

\* one environment for each way fetchPage can end
PageEnvKinds ==
    LET kind(e) == <<FetchPageFlow(e).threw, FetchPageFlow(e).extracted>>
    IN  {CHOOSE e \in PageEnvs : kind(e) = k : k \in {kind(e) : e \in PageEnvs}}

----------------------------------------------------------------------------
(* fetchVideoDetails (src/addon.js:402-735): the stream resolver *)

\* a JavaScript Map, as the sequence of its entries in insertion order
MapHas(m, k) == \E i \in 1..Len(m) : m[i].key = k

\* Map.set: an existing key keeps its place and takes the new value
MapSet(m, k, v) ==
    IF MapHas(m, k)
    THEN [i \in 1..Len(m) |-> IF m[i].key = k THEN [key |-> k, val |-> v] ELSE m[i]]
    ELSE Append(m, [key |-> k, val |-> v])

\* Array.from(map.values())
MapValues(m) == [i \in 1..Len(m) |-> m[i].val]

\* the `hstream.moehttps://` repair of the first lines of fetchVideoDetails:
\* String.replace rewrites the first occurrence only
NormalizeUrl(url) ==
    IF \E i \in 1..(Len(url) - 1) : url[i] = "hstream.moe" /\ url[i + 1] = "https://"
    THEN LET at == CHOOSE i \in 1..(Len(url) - 1) :
                       /\ url[i] = "hstream.moe" /\ url[i + 1] = "https://"
                       /\ \A j \in 1..(i - 1) : ~(url[j] = "hstream.moe" /\ url[j + 1] = "https://")
         IN  SubSeq(url, 1, at - 1) \o <<"https://">> \o SubSeq(url, at + 2, Len(url))
    ELSE url

DetailsKey(url) == <<"details">> \o url

MediaExts == {".m3u8", ".mp4", ".mkv", ".avi", ".mov"}

\* requestUrl.match(/\.(m3u8|mp4|mkv|avi|mov)(\?|$)/i)
IsMedia(url) ==
    \E i \in 1..Len(url) : url[i] \in MediaExts /\ (i = Len(url) \/ url[i + 1] = "?")

\* the if/else-if chain over includes('2160') ... includes('360'); 0: none matched
IncludedNum(s) ==
    IF Includes(s, "2160") THEN 2160
    ELSE IF Includes(s, "1080") THEN 1080
    ELSE IF Includes(s, "720") THEN 720
    ELSE IF Includes(s, "480") THEN 480
    ELSE IF Includes(s, "360") THEN 360
    ELSE 0

NumTokens == {"2160", "1080", "720", "480", "360"}
NumOf(t) == CASE t = "2160" -> 2160 [] t = "1080" -> 1080 [] t = "720" -> 720
              [] t = "480" -> 480 [] t = "360" -> 360 [] OTHER -> 0

\* a quality label, as tokens: '1080p' is <<"1080", "p">>
Label(n) == <<n, "p">>

\* parseInt(label) || 0: the leading number of the label
ParseInt(label) == IF label # <<>> /\ label[1] \in NumTokens THEN NumOf(label[1]) ELSE 0

\* the quality the request handler reads off a media URL (<<>>: 'Unknown')
RequestQuality(url) ==
    IF Includes(url, "2160") THEN Label("2160")
    ELSE IF Includes(url, "1080") THEN Label("1080")
    ELSE IF Includes(url, "720") THEN Label("720")
    ELSE IF Includes(url, "480") THEN Label("480")
    ELSE IF Includes(url, "360") THEN Label("360")
    ELSE <<>>

\* a handler that records media requests of unknown quality too
OnRequestKeepUnknown(streams, requestUrl) ==
    IF IsMedia(requestUrl)
    THEN LET quality == IF RequestQuality(requestUrl) = <<>> THEN <<"Unknown">>
                        ELSE RequestQuality(requestUrl)
         IN  MapSet(streams, quality,
                    [url |-> requestUrl, quality |-> quality, qualityNum |-> ParseInt(quality)])
    ELSE streams

\* page.on('request') (src/addon.js:420-446): the streams map it leaves
OnRequest(streams, requestUrl) ==
    IF IsMedia(requestUrl) /\ RequestQuality(requestUrl) # <<>>
    THEN MapSet(streams, RequestQuality(requestUrl),
                [url |-> requestUrl, quality |-> RequestQuality(requestUrl),
                 qualityNum |-> ParseInt(RequestQuality(requestUrl))])
    ELSE streams

\* page.on('request'): what becomes of the request
RequestVerdict(requestUrl) == IF IsMedia(requestUrl) THEN "abort" ELSE "continue"

\* a handler whose 'Unknown' branch lacks its `return`
RequestAnswersNoReturn(requestUrl) ==
    IF IsMedia(requestUrl)
    THEN IF RequestQuality(requestUrl) = <<>> THEN <<"abort", "abort">> ELSE <<"abort">>
    ELSE <<"continue">>

\* page.on('request'): the calls of request.abort() and request.continue()
\* the handler makes for one request, in order
RequestAnswers(requestUrl) ==
    IF IsMedia(requestUrl)
    THEN IF RequestQuality(requestUrl) = <<>> THEN <<"abort">> ELSE <<"abort">>
    ELSE <<"continue">>

RECURSIVE OnRequests(_, _)
OnRequests(streams, urls) ==
    IF urls = <<>> THEN streams ELSE OnRequests(OnRequest(streams, Head(urls)), Tail(urls))

\* langMap[lang] || 'eng'
LangCode(lang) ==
    CASE lang = "English" -> "eng" [] lang = "German" -> "ger" [] lang = "Spanish" -> "spa"
      [] lang = "French" -> "fre" [] lang = "Hindi" -> "hin" [] lang = "Portuguese" -> "por"
      [] lang = "Russian" -> "rus" [] lang = "Italian" -> "ita" [] OTHER -> "eng"

\* a download button: b.word is the leading word of its text ("": none), b.auto
\* the 'auto translated' marker, b.href the link of its anchor (<<>>: no anchor)
ButtonLang(b) == IF b.word = "" THEN "English" ELSE b.word

ButtonEntry(b) ==
    [url |-> b.href, lang |-> LangCode(ButtonLang(b)), id |-> LangCode(ButtonLang(b)),
     name |-> <<ButtonLang(b), IF b.auto THEN " (Auto)" ELSE "">>]

RECURSIVE ButtonSubtitles(_, _)
\* subtitleButtons.forEach of the first evaluate (src/addon.js:467-502)
ButtonSubtitles(subtitles, buttons) ==
    IF buttons = <<>> THEN subtitles
    ELSE LET b == Head(buttons)
         IN  ButtonSubtitles(IF b.href = <<>> THEN subtitles
                             ELSE MapSet(subtitles, ButtonLang(b), ButtonEntry(b)),
                             Tail(buttons))

\* a track element: t.src (<<>>: none), t.srclang, t.label ("": unset), t.inVideo
TrackLang(t) == IF t.srclang = "" THEN "und" ELSE t.srclang

\* src.split('.').pop().toLowerCase()
Extension(url) ==
    LET last == url[Len(url)]
    IN  CASE last \in {".vtt", ".VTT"} -> "vtt" [] last = ".ass" -> "ass"
          [] last = ".srt" -> "srt" [] OTHER -> last

TrackEntry(t) ==
    [url |-> t.src, lang |-> TrackLang(t),
     id |-> IF t.label = "" THEN TrackLang(t) ELSE t.label,
     format |-> Extension(t.src)]

RECURSIVE TrackSubtitles(_, _)
\* the two forEach over track elements (src/addon.js:506-519 and 550-563)
TrackSubtitles(subtitles, tracks) ==
    IF tracks = <<>> THEN subtitles
    ELSE LET t == Head(tracks)
         IN  TrackSubtitles(IF t.src = <<>> THEN subtitles
                            ELSE MapSet(subtitles, TrackLang(t), TrackEntry(t)),
                            Tail(tracks))

\* the subtitles map of the first evaluate: buttons, the document's tracks, then
\* the tracks inside video elements once more
VideoSubtitles(dom) ==
    LET inVideo(t) == t.inVideo
    IN  TrackSubtitles(TrackSubtitles(ButtonSubtitles(<<>>, dom.buttons), dom.tracks),
                       SelectSeq(dom.tracks, inVideo))

RECURSIVE SourceMap(_, _)
\* the sources map of the first evaluate (src/addon.js:522-547); a source is
\* [src, quality], quality already read through the attribute fallback chain
SourceMap(sources, elems) ==
    IF elems = <<>> THEN sources
    ELSE LET e == Head(elems)
         IN  SourceMap(IF e.src = <<>> \/ e.quality = <<"Unknown">> THEN sources
                       ELSE MapSet(sources, e.quality, [url |-> e.src, quality |-> e.quality]),
                       Tail(elems))

RECURSIVE MergeSourcesAlways(_, _)
\* a merge without the `!streams.has(source.quality)` test
MergeSourcesAlways(streams, sources) ==
    IF sources = <<>> THEN streams
    ELSE LET s == Head(sources)
         IN  MergeSourcesAlways(IF s.quality # <<"Unknown">>
                                THEN MapSet(streams, s.quality,
                                            [url |-> s.url, quality |-> s.quality,
                                             qualityNum |-> IncludedNum(s.quality)])
                                ELSE streams,
                                Tail(sources))

RECURSIVE MergeSources(_, _)
\* videoData.sources.forEach (src/addon.js:576-590)
MergeSources(streams, sources) ==
    IF sources = <<>> THEN streams
    ELSE LET s == Head(sources)
         IN  MergeSources(IF ~MapHas(streams, s.quality) /\ s.quality # <<"Unknown">>
                          THEN MapSet(streams, s.quality,
                                      [url |-> s.url, quality |-> s.quality,
                                       qualityNum |-> IncludedNum(s.quality)])
                          ELSE streams,
                          Tail(sources))

\* new URL(u).protocol, which lower-cases the scheme; "throws": u does not parse
Protocol(url) ==
    IF url = <<>> THEN "throws"
    ELSE CASE url[1] \in {"https://", "HTTPS://"} -> "https:"
           [] url[1] = "http://" -> "http:"
           [] url[1] = "blob:" -> "blob:"
           [] OTHER -> "throws"

\* new URL(u).protocol === 'https:', false in the catch
IsHttps(url) == Protocol(url) = "https:"

\* a filter that keeps every stream
KeepAll(stream) == TRUE

KeepHttps(stream) == IsHttps(stream.url)

\* a comparator that leaves the order of the map
CompareNone(a, b) == 0

\* the comparator of the sort: negative when a goes before b
CompareStreams(a, b) == b.qualityNum - a.qualityNum

RECURSIVE InsertSorted(_, _)
InsertSorted(sorted, x) ==
    IF sorted = <<>> THEN <<x>>
    ELSE IF CompareStreams(Head(sorted), x) <= 0 THEN <<Head(sorted)>> \o InsertSorted(Tail(sorted), x)
    ELSE <<x>> \o sorted

RECURSIVE SortStreams(_)
\* Array.prototype.sort, which is stable
SortStreams(s) ==
    IF s = <<>> THEN <<>> ELSE InsertSorted(SortStreams(SubSeq(s, 1, Len(s) - 1)), s[Len(s)])

\* qualityDesc[stream.quality] || stream.quality
QualityDesc(q) ==
    CASE q = Label("2160") -> <<"4K Ultra HD">> [] q = Label("1080") -> <<"Full HD">>
      [] q = Label("720") -> <<"HD">> [] q = Label("480") -> <<"SD">>
      [] q = Label("360") -> <<"Low Quality">> [] OTHER -> q

\* String.toUpperCase, on the language codes met
ToUpperCase(s) ==
    CASE s = "eng" -> "ENG" [] s = "ger" -> "GER" [] s = "und" -> "UND"
      [] s = "English" -> "ENGLISH" [] OTHER -> s

\* the subtitles attached to each stream payload
PayloadSubtitle(sub) ==
    [id |-> sub.id, url |-> sub.url, lang |-> sub.lang,
     format |-> IF "format" \in DOMAIN sub THEN sub.format ELSE "undefined",
     name |-> <<ToUpperCase(sub.lang), " Subtitles">>]

StreamPayload(stream, title, subtitles) ==
    LET base == [title |-> QualityDesc(stream.quality), url |-> stream.url,
                 name |-> <<title>> \o QualityDesc(stream.quality)]
    IN  IF subtitles # <<>>
        THEN base @@ [subtitles |-> [i \in 1..Len(subtitles) |-> PayloadSubtitle(subtitles[i])]]
        ELSE base

\* the streams that pass the filter, as the sort leaves them (src/addon.js:681-689)
RankedStreams(streams) == SortStreams(SelectSeq(MapValues(streams), KeepHttps))

\* uniqueStreams (src/addon.js:681-716)
UniqueStreams(streams, title, subtitles) ==
    LET kept == RankedStreams(streams)
    IN  [i \in 1..Len(kept) |-> StreamPayload(kept[i], title, subtitles)]

\* meta.subtitles: the buttons once more, pushed to an array (src/addon.js:625-663)
MetaSubtitles(buttons) ==
    LET linked(b) == b.href # <<>>
        bs == SelectSeq(buttons, linked)
    IN  [i \in 1..Len(bs) |-> ButtonEntry(bs[i])]

Degraded == [title |-> "Unknown", streams |-> <<>>]

\* the streams map when the session is closed, under the outcomes e of the
\* awaits: e.early are the requests seen before the DOM is read, e.late those
\* seen after the sources are merged
ResolvedStreams(e) ==
    OnRequests(MergeSources(OnRequests(<<>>, e.early),
                            MapValues(SourceMap(<<>>, e.dom.sources))),
               e.late)

\* a resolution whose catch block stores the degraded result
ResolveFreshStoreAll(e) ==
    IF ~e.launch
    THEN [threw |-> FALSE, cached |-> TRUE, result |-> Degraded, launched |-> 0, closes |-> 0]
    ELSE IF ~(e.newPage /\ e.goto /\ e.video /\ e.evalOk /\ e.metaOk /\ e.close)
    THEN [threw |-> ~e.closeAgain, cached |-> e.closeAgain, result |-> Degraded, launched |-> 1,
          closes |-> IF e.newPage /\ e.goto /\ e.video /\ e.evalOk /\ e.metaOk THEN 2 ELSE 1]
    ELSE [threw |-> FALSE, cached |-> TRUE, launched |-> 1, closes |-> 1,
          result |-> [title |-> e.title, subtitles |-> MetaSubtitles(e.dom.buttons),
                      streams |-> UniqueStreams(ResolvedStreams(e), e.title,
                                                MapValues(VideoSubtitles(e.dom)))]]

\* a resolution whose catch block returns without closing the session
ResolveFreshLeak(e) ==
    IF ~e.launch
    THEN [threw |-> FALSE, cached |-> FALSE, result |-> Degraded, launched |-> 0, closes |-> 0]
    ELSE IF ~(e.newPage /\ e.goto /\ e.video /\ e.evalOk /\ e.metaOk /\ e.close)
    THEN [threw |-> FALSE, cached |-> FALSE, result |-> Degraded, launched |-> 1,
          closes |-> IF e.newPage /\ e.goto /\ e.video /\ e.evalOk /\ e.metaOk THEN 1 ELSE 0]
    ELSE [threw |-> FALSE, cached |-> TRUE, launched |-> 1, closes |-> 1,
          result |-> [title |-> e.title, subtitles |-> MetaSubtitles(e.dom.buttons),
                      streams |-> UniqueStreams(ResolvedStreams(e), e.title,
                                                MapValues(VideoSubtitles(e.dom)))]]

\* fetchVideoDetails after a cache miss, under the outcomes e of its awaits:
\* e.launch, e.newPage, e.goto, e.video (the video element appears), e.evalOk,
\* e.dom, e.metaOk, e.title, e.close, e.closeAgain (the close of the catch block)
ResolveFresh(e) ==
    IF ~e.launch
    THEN [threw |-> FALSE, cached |-> FALSE, result |-> Degraded, launched |-> 0, closes |-> 0]
    ELSE IF ~(e.newPage /\ e.goto /\ e.video /\ e.evalOk /\ e.metaOk /\ e.close)
    THEN \* the catch block closes the session: a rejection there leaves the function
         [threw |-> ~e.closeAgain, cached |-> FALSE, result |-> Degraded, launched |-> 1,
          closes |-> IF e.newPage /\ e.goto /\ e.video /\ e.evalOk /\ e.metaOk THEN 2 ELSE 1]
    ELSE [threw |-> FALSE, cached |-> TRUE, launched |-> 1, closes |-> 1,
          result |-> [title |-> e.title, subtitles |-> MetaSubtitles(e.dom.buttons),
                      streams |-> UniqueStreams(ResolvedStreams(e), e.title,
                                                MapValues(VideoSubtitles(e.dom)))]]

\* fetchVideoDetails: the cache check, then the resolution
FetchVideoDetails(link, e, cache, t) ==
    LET key == DetailsKey(NormalizeUrl(link))
        got == CacheGet(cache, key, t)
        swept == CacheAfterGet(cache, key, t)
        fresh == ResolveFresh(e)
    IN  IF got.hit
        THEN [threw |-> FALSE, result |-> got.value, cache |-> swept, key |-> key,
              shared |-> TRUE, fromCache |-> TRUE, launched |-> 0, closes |-> 0]
        ELSE [threw |-> fresh.threw, result |-> fresh.result, key |-> key,
              cache |-> IF fresh.cached
                        THEN CacheSet(swept, key, fresh.result, 0, STREAM_TTL, t)
                        ELSE swept,
              \* the object returned is the object the cache holds
              shared |-> fresh.cached, fromCache |-> FALSE,
              launched |-> fresh.launched, closes |-> fresh.closes]

\* the awaits of a resolution that meets no failure and finds nothing
QuietEnv ==
    [launch |-> TRUE, newPage |-> TRUE, early |-> <<>>, goto |-> TRUE, video |-> TRUE,
     evalOk |-> TRUE, dom |-> [buttons |-> <<>>, tracks |-> <<>>, sources |-> <<>>],
     late |-> <<>>, metaOk |-> TRUE, title |-> "Title", close |-> TRUE, closeAgain |-> TRUE]

MediaUrl(scheme, host, num) == <<scheme, host, "/", num, ".mp4">>
SubtitleUrl(host, lang) == <<"https://", host, "/", lang, ".ass">>
Button(word, auto) == [word |-> word, auto |-> auto, href |-> SubtitleUrl("dl", word)]

\* the resolutions the handlers meet
HandlerEnvs ==
    {[QuietEnv EXCEPT !.early = <<MediaUrl("https://", "cdn", "720"),
                                  MediaUrl("https://", "cdn", "1080")>>,
                      !.dom.buttons = <<Button("English", FALSE)>>],
     [QuietEnv EXCEPT !.early = <<MediaUrl("http://", "cdn", "720")>>,
                      !.dom.buttons = <<Button("English", FALSE)>>],
     QuietEnv,
     [QuietEnv EXCEPT !.goto = FALSE],
     [QuietEnv EXCEPT !.close = FALSE, !.closeAgain = FALSE]}

----------------------------------------------------------------------------
(* fetchCatalog (src/addon.js:177-233) and the catalog handler (738-770) *)

\* a loop condition that looks at the ceiling only
NeedMoreBelowCeiling(allItems, skip) ==
    Len(allItems) < MAX_PAGES * ITEMS_PER_PAGE

\* the condition of the while loop
NeedMore(allItems, skip) ==
    Len(allItems) < skip + ITEMS_PER_PAGE /\ Len(allItems) < MAX_PAGES * ITEMS_PER_PAGE

\* nextPage
NextPage(allItems) == (Len(allItems) \div ITEMS_PER_PAGE) + 1

\* a batch that is not cut at the ceiling
PagesToLoadUncut(allItems) ==
    LET first == NextPage(allItems)
    IN  [i \in 1..CONCURRENT_PAGES |-> first + i - 1]

\* pagesToLoad, in the order of the for loop
PagesToLoad(allItems) ==
    LET first == NextPage(allItems)
        n == Max(0, Min(CONCURRENT_PAGES, MAX_PAGES - first + 1))
    IN  [i \in 1..n |-> first + i - 1]

\* a merge that drops the batch
MergeBatchKeep(allItems, pageItems) == allItems

\* a merge that puts the batch in front
MergeBatchFront(allItems, pageItems) == pageItems \o allItems

\* a merge that forgets what the call had accumulated
MergeBatchOnly(allItems, pageItems) == pageItems

\* `[...allItems, ...pageItems]`
MergeBatch(allItems, pageItems) == allItems \o pageItems

\* a slice that starts at the boundary of the page the offset falls in
CatalogSlicePaged(allItems, skip) ==
    LET start == (skip \div ITEMS_PER_PAGE) * ITEMS_PER_PAGE
    IN  Slice(allItems, start, Min(start + ITEMS_PER_PAGE, Len(allItems)))

\* the slice returned
CatalogSlice(allItems, skip) ==
    Slice(allItems, skip, Min(skip + ITEMS_PER_PAGE, Len(allItems)))

\* the handler's `metas`: the projection of each entry (the link is dropped)
Metas(catalog) == [i \in 1..Len(catalog) |-> [id |-> catalog[i].id, type |-> "movie"]]

\* the catalog requests made: the first window of the popular listing, an
\* unaligned one, the second, and one that starts inside the second page and
\* ends inside the third; the recent listing; a search under either sort order
CatalogRequests ==
    {[skip |-> k, search |-> "", catalogType |-> "popular"] :
        k \in {0, 1, ITEMS_PER_PAGE, 2 * ITEMS_PER_PAGE - 1}}
        \cup {[skip |-> 0, search |-> "", catalogType |-> "recent"],
              [skip |-> 0, search |-> "q", catalogType |-> "recent"],
              [skip |-> 0, search |-> "q", catalogType |-> "popular"]}

Idle == [at |-> "idle"]

\* the counters of a call: sessions launched and closed, fetchPage calls, batches
Counters(l) == [start |-> l.start, launches |-> l.launches, closes |-> l.closes,
                fetches |-> l.fetches, batches |-> l.batches]

\* the response of a handler that returned
Returned(kind, value, info) == [status |-> "ok", kind |-> kind, value |-> value] @@ info

\* a handler whose promise rejected
Threw(kind, info) == [status |-> "threw", kind |-> kind] @@ info

\* history: what is remembered of a finished call when the next one starts
Summary(q, r, cache) ==
    IF r.status = "none" THEN [kind |-> "none"]
    ELSE IF q.kind = "catalog"
    THEN LET key == GlobalCacheKey(q.search, q.catalogType)
         IN  [kind |-> "catalog", start |-> r.start, req |-> q,
              full |-> r.accLen >= q.skip + ITEMS_PER_PAGE,
              expires |-> IF key \in DOMAIN cache THEN cache[key].expires ELSE -1]
    ELSE IF "degraded" \in DOMAIN r
    THEN [kind |-> q.kind, link |-> r.link, degraded |-> r.degraded]
    ELSE [kind |-> q.kind, link |-> <<>>, degraded |-> FALSE]

\* the catalog handler is called: fetchCatalog reads the cache
CatalogStart(skip, search, catalogType) ==
    /\ pc = "idle"
    /\ calls < MaxCalls
    /\ LET key == GlobalCacheKey(search, catalogType)
       IN  /\ catalogCache' = CacheAfterGet(catalogCache, key, now)
           /\ loc' = [key |-> key,
                      allItems |-> CachedItems(catalogCache, key, now),
                      had |-> CachedItems(catalogCache, key, now),
                      start |-> now, launches |-> 0, closes |-> 0, fetches |-> 0,
                      batches |-> 0, pages |-> <<>>, outcome |-> "none"]
    /\ req' = [kind |-> "catalog", skip |-> skip, search |-> search,
               catalogType |-> catalogType]
    /\ ret' = [status |-> "pending", kind |-> "catalog"]
    /\ prev' = Summary(req, ret, catalogCache)
    /\ calls' = calls + 1
    /\ pc' = "catalog"
    /\ UNCHANGED <<now, streamCache, site, zeroRuns, rin, rout>>

\* fetchCatalog returns and the handler answers
CatalogFinish(l) ==
    /\ pc' = "idle"
    /\ loc' = Idle
    /\ ret' = Returned("catalog", CatalogSlice(l.allItems, req.skip),
                       [had |-> l.had, accLen |-> Len(l.allItems), pages |-> l.pages,
                        outcome |-> l.outcome]
                           @@ Counters(l))

\* one iteration of the while loop: a batch; loc.pages keeps pagesToLoad and
\* loc.outcome how the batch went
CatalogBatch ==
    /\ pc = "catalog"
    /\ NeedMore(loc.allItems, req.skip)
    /\ LET pages == PagesToLoad(loc.allItems)
           tried == [loc EXCEPT !.batches = @ + 1, !.pages = pages]
       IN  \/ /\ pages = <<>>                                \* `break` before any launch
              /\ CatalogFinish([loc EXCEPT !.pages = pages, !.outcome = "nopages"])
              /\ UNCHANGED catalogCache
           \/ /\ pages # <<>>                                \* launchBrowser() throws
              /\ CatalogFinish([tried EXCEPT !.outcome = "launch"])
              /\ UNCHANGED catalogCache
           \/ /\ pages # <<>>
              /\ \E results \in [1..Len(pages) -> PageEnvKinds], closeOk \in BOOLEAN :
                    LET fetched == [i \in 1..Len(pages) |->
                                       FetchPage(req.catalogType, PageDom(site, pages[i]),
                                                 results[i])]
                        pageItems == Flat([i \in 1..Len(pages) |-> fetched[i].items])
                        failed == \E i \in 1..Len(pages) : fetched[i].threw
                        merged == MergeBatch(loc.allItems, pageItems)
                        stored == ~failed /\ pageItems # <<>>
                        launched == [tried EXCEPT !.launches = @ + 1,
                                                  !.fetches = @ + Len(pages),
                                                  !.closes = @ + 1,
                                                  !.outcome = IF failed THEN "error"
                                                              ELSE IF stored THEN "stored"
                                                              ELSE "empty"]
                    IN  /\ catalogCache' =
                              IF stored
                              THEN CacheSet(catalogCache, loc.key, merged, 0, CATALOG_TTL, now)
                              ELSE catalogCache
                        /\ IF ~closeOk                        \* close() rejects in `finally`
                           THEN /\ pc' = "idle"
                                /\ loc' = Idle
                                /\ ret' = Threw("catalog",
                                               [accLen |-> IF stored THEN Len(merged)
                                                           ELSE Len(loc.allItems),
                                                pages |-> pages, outcome |-> launched.outcome]
                                                   @@ Counters(launched))
                           ELSE IF stored
                           THEN /\ pc' = "catalog"
                                /\ loc' = [launched EXCEPT !.allItems = merged]
                                /\ ret' = ret
                           ELSE CatalogFinish(launched)       \* `break`: error or empty batch
    /\ UNCHANGED <<now, streamCache, req, prev, calls, site, zeroRuns, rin, rout>>

\* the loop condition is false
CatalogReturn ==
    /\ pc = "catalog"
    /\ ~NeedMore(loc.allItems, req.skip)
    /\ CatalogFinish(loc)
    /\ UNCHANGED <<now, catalogCache, streamCache, req, prev, calls, site, zeroRuns, rin, rout>>

----------------------------------------------------------------------------
(* the meta handler (src/addon.js:772-877) and the stream handler (879-988) *)

\* the identities the handlers are asked for: on the first listing page, on a
\* later one, and one the site does not list
LookupIds == {<<"hstream", "popular", AllSlugs[i]>> : i \in {1, 3, 9}}

\* the handler is called: it reads the cache and looks the identity up
LookupStart(kind, id) ==
    /\ pc = "idle"
    /\ calls < MaxCalls
    /\ LET key == IdCacheKey(id)
           cachedItems == CachedItems(catalogCache, key, now)
           at == FindIndex(cachedItems, id)
           l == [key |-> key, cachedItems |-> cachedItems, pageNum |-> 1,
                 browser |-> FALSE, start |-> now, launches |-> 0, closes |-> 0,
                 fetches |-> 0, batches |-> 0]
       IN  /\ catalogCache' = CacheAfterGet(catalogCache, key, now)
           /\ IF at # 0
              THEN /\ pc' = "resolve"
                   /\ loc' = l @@ [item |-> cachedItems[at]]
              ELSE /\ pc' = "lookup"
                   /\ loc' = l
    /\ req' = [kind |-> kind, id |-> id]
    /\ ret' = [status |-> "pending", kind |-> kind]
    /\ prev' = Summary(req, ret, catalogCache)
    /\ calls' = calls + 1
    /\ UNCHANGED <<now, streamCache, site, zeroRuns, rin, rout>>

\* `{ meta: null }` or `{ streams: [] }`
NotFound(kind) == IF kind = "meta" THEN [meta |-> "null"] ELSE [streams |-> <<>>]

LookupFinish(l) ==
    /\ pc' = "idle"
    /\ loc' = Idle
    /\ ret' = Returned(req.kind, NotFound(req.kind),
                       [found |-> FALSE, accLen |-> Len(l.cachedItems)] @@ Counters(l))

LookupThrow(l) ==
    /\ pc' = "idle"
    /\ loc' = Idle
    /\ ret' = Threw(req.kind, [accLen |-> Len(l.cachedItems)] @@ Counters(l))

\* a push that puts the page in front (`unshift`)
PushItemsFront(cachedItems, pageItems) == pageItems \o cachedItems

\* `cachedItems.push(...pageItems)`
PushItems(cachedItems, pageItems) == cachedItems \o pageItems

\* a loop that knows no ceiling
LookupMoreAlways(pageNum) == TRUE

\* the condition of the lookup loop, `found` being false at its head
LookupMore(pageNum) == pageNum <= MAX_PAGES

\* the while loop is left without the item
LookupExhausted ==
    /\ pc = "lookup"
    /\ ~LookupMore(loc.pageNum)
    /\ LookupFinish(loc)
    /\ UNCHANGED <<now, catalogCache, streamCache, req, prev, calls, site, zeroRuns, rin, rout>>

\* one iteration of the while loop: one listing page
LookupPage ==
    /\ pc = "lookup"
    /\ LookupMore(loc.pageNum)
    /\ LET tried == [loc EXCEPT !.batches = @ + 1]
       IN  \/ \* launchBrowser() throws: `browser` still names the session before
              \E closeOk \in BOOLEAN :
                /\ UNCHANGED catalogCache
                /\ IF loc.browser /\ ~closeOk
                   THEN LookupThrow([tried EXCEPT !.closes = @ + 1])
                   ELSE LookupFinish([tried EXCEPT !.closes = @ + (IF loc.browser THEN 1 ELSE 0)])
           \/ \* a throw or a non-200 status before fetchPage is called
              \E closeOk \in BOOLEAN :
                LET l == [tried EXCEPT !.launches = @ + 1, !.closes = @ + 1, !.browser = TRUE]
                IN  /\ UNCHANGED catalogCache
                    /\ IF closeOk THEN LookupFinish(l) ELSE LookupThrow(l)
           \/ \E e \in PageEnvKinds, closeOk \in BOOLEAN :
                LET l == [tried EXCEPT !.launches = @ + 1, !.closes = @ + 1,
                                       !.fetches = @ + 1, !.browser = TRUE]
                    got == FetchPage(req.id[2], PageDom(site, loc.pageNum), e)
                    stored == ~got.threw /\ got.items # <<>>
                    pushed == PushItems(loc.cachedItems, got.items)
                    at == FindIndex(got.items, req.id)
                    after == [l EXCEPT !.cachedItems = IF stored THEN pushed ELSE @]
                IN  /\ catalogCache' =
                          IF stored
                          THEN CacheSet(catalogCache, loc.key, pushed, 0, CATALOG_TTL, now)
                          ELSE catalogCache
                    /\ IF ~closeOk THEN LookupThrow(after)
                       ELSE IF ~stored THEN LookupFinish(after)
                       ELSE IF at # 0
                       THEN /\ pc' = "resolve"
                            /\ loc' = after @@ [item |-> got.items[at]]
                            /\ ret' = ret
                       ELSE /\ pc' = "lookup"
                            /\ loc' = [after EXCEPT !.pageNum = @ + 1]
                            /\ ret' = ret
    /\ UNCHANGED <<now, streamCache, req, prev, calls, site, zeroRuns, rin, rout>>

\* a fallback that hands the detail page over as if it were playable
HandlerStreamsUrl(details, link) ==
    IF details.streams = <<>>
    THEN <<[title |-> <<"Open in Browser">>, url |-> link]>>
    ELSE details.streams

\* the stream handler's `details.streams` (src/addon.js:964-985)
HandlerStreams(details, link) ==
    IF details.streams = <<>>
    THEN <<[title |-> <<"Open in Browser">>, externalUrl |-> link]>>
    ELSE IF "subtitles" \in DOMAIN details /\ details.subtitles # <<>>
    THEN [i \in 1..Len(details.streams) |->
            [subtitles |-> [j \in 1..Len(details.subtitles) |->
                              [id |-> details.subtitles[j].id, url |-> details.subtitles[j].url,
                               lang |-> details.subtitles[j].lang,
                               name |-> details.subtitles[j].id]]]
                @@ details.streams[i]]
    ELSE details.streams

\* the handler resolves the item it found and answers
Resolve ==
    /\ pc = "resolve"
    /\ \E e \in HandlerEnvs :
          LET r == FetchVideoDetails(loc.item.link, e, streamCache, now)
              zero == IF r.fromCache THEN r.key \in zeroRuns ELSE r.result.streams = <<>>
              streams == HandlerStreams(r.result, loc.item.link)
              info == [found |-> TRUE, accLen |-> Len(loc.cachedItems), zero |-> zero,
                       link |-> loc.item.link, fromCache |-> r.fromCache,
                       degraded |-> ~r.fromCache /\ r.result = Degraded,
                       rlaunched |-> r.launched, rcloses |-> r.closes]
                        @@ Counters([loc EXCEPT !.launches = @ + r.launched,
                                                !.closes = @ + r.closes])
          IN  /\ zeroRuns' = IF r.fromCache \/ ~r.shared THEN zeroRuns
                             ELSE IF zero THEN zeroRuns \cup {r.key} ELSE zeroRuns \ {r.key}
              /\ IF r.threw
                 THEN /\ ret' = Threw(req.kind, info)
                      /\ streamCache' = r.cache
                 ELSE IF req.kind = "meta"
                 THEN /\ ret' = Returned("meta",
                                        [meta |-> [id |-> loc.item.id, name |-> r.result.title]],
                                        info)
                      /\ streamCache' = r.cache
                 ELSE /\ ret' = Returned("stream", [streams |-> streams], info)
                      \* `details.streams = ...` writes into the object the cache holds
                      /\ streamCache' =
                            IF r.shared
                            THEN [r.cache EXCEPT ![r.key].value.streams = streams]
                            ELSE r.cache
    /\ pc' = "idle"
    /\ loc' = Idle
    /\ UNCHANGED <<now, catalogCache, req, prev, calls, site, rin, rout>>

\* an hour passes between two calls
Tick ==
    /\ now < MaxTime
    /\ pc = "idle"
    /\ 0 < calls /\ calls < MaxCalls
    /\ now' = now + 1
    /\ UNCHANGED <<catalogCache, streamCache, pc, req, loc, ret, prev, calls, site,
                   zeroRuns, rin, rout>>

NoCall == [kind |-> "none"]

Init ==
    /\ now = 0
    /\ catalogCache = <<>>
    /\ streamCache = <<>>
    /\ pc = "idle"
    /\ req = NoCall
    /\ loc = Idle
    /\ ret = [status |-> "none", kind |-> "none"]
    /\ prev = [kind |-> "none"]
    /\ calls = 0
    /\ site \in Sites
    /\ zeroRuns = {}
    /\ rin = <<>>
    /\ rout = <<>>

Next ==
    \/ \E q \in CatalogRequests : CatalogStart(q.skip, q.search, q.catalogType)
    \/ CatalogBatch
    \/ CatalogReturn
    \/ \E kind \in {"meta", "stream"}, id \in LookupIds : LookupStart(kind, id)
    \/ LookupExhausted
    \/ LookupPage
    \/ Resolve
    \/ Tick

Spec == Init /\ [][Next]_vars

----------------------------------------------------------------------------
(* the resolver alone: one resolution of each page of a bounded family *)

MaxRequests == 3
MaxSources == 2
MaxButtons == 2
MaxTracks == 2

\* requests the page issues: media of three qualities over https, one over
\* http, one whose URL names no quality, and a script
RequestUrls ==
    {MediaUrl("https://", "cdn", "360"), MediaUrl("https://", "cdn", "720"),
     MediaUrl("https://", "cdn", "1080"), MediaUrl("http://", "cdn", "720"),
     <<"https://", "cdn", "/", "video", ".mp4">>, <<"https://", "cdn", "/", "app", ".js">>}

LateUrls == {MediaUrl("https://", "late", "720")}

\* video and source elements, with the quality their attributes give
DomSources ==
    {[src |-> MediaUrl("https://", "dom", "720"), quality |-> Label("720")],
     [src |-> MediaUrl("http://", "dom", "1080"), quality |-> Label("1080")],
     [src |-> MediaUrl("HTTPS://", "dom", "480"), quality |-> <<"480">>],
     [src |-> MediaUrl("https://", "dom", "1440"), quality |-> <<"1440", "p">>],
     [src |-> <<"blob:", "https://", "hstream.moe", "/", "1">>, quality |-> <<"Default">>],
     [src |-> <<"//[">>, quality |-> <<"Default">>],
     [src |-> MediaUrl("https://", "dom", "x"), quality |-> <<"Unknown">>]}

DomButtons ==
    {Button("English", FALSE), Button("English", TRUE), Button("German", FALSE),
     Button("", FALSE), [word |-> "English", auto |-> FALSE, href |-> <<>>]}

Track(srclang, host, inVideo) ==
    [src |-> <<"https://", host, "/", srclang, ".vtt">>, srclang |-> srclang, label |-> "",
     inVideo |-> inVideo]

DomTracks ==
    {Track("eng", "t1", FALSE), Track("eng", "t2", TRUE), Track("English", "t1", FALSE),
     Track("", "t1", FALSE), Track("ger", "t1", TRUE),
     [src |-> <<>>, srclang |-> "eng", label |-> "", inVideo |-> FALSE]}

\* pages with many requests and at most one source, and pages with many
\* sources and at most one request
StreamEnvs ==
    {[QuietEnv EXCEPT !.early = a, !.dom.sources = b, !.late = c] :
        a \in SeqsUpTo(RequestUrls, MaxRequests), b \in SeqsUpTo(DomSources, 1),
        c \in SeqsUpTo(LateUrls, 1)}
    \cup {[QuietEnv EXCEPT !.early = a, !.dom.sources = b, !.late = c] :
            a \in SeqsUpTo(RequestUrls, 1), b \in SeqsUpTo(DomSources, MaxSources),
            c \in SeqsUpTo(LateUrls, 1)}

SubtitleEnvs ==
    {[QuietEnv EXCEPT !.early = <<MediaUrl("https://", "cdn", "720")>>,
                      !.dom.buttons = a, !.dom.tracks = b] :
        a \in SeqsUpTo(DomButtons, MaxButtons), b \in SeqsUpTo(DomTracks, MaxTracks)}

FailureEnvs ==
    {[QuietEnv EXCEPT !.early = <<MediaUrl("https://", "cdn", "720")>>,
                      !.launch = f[1], !.newPage = f[2], !.goto = f[3], !.video = f[4],
                      !.evalOk = f[5], !.metaOk = f[6], !.close = f[7], !.closeAgain = f[8]] :
        f \in [1..8 -> BOOLEAN]}

ResolverEnvs == StreamEnvs \cup SubtitleEnvs \cup FailureEnvs

\* fetchVideoDetails runs on the page rin; rout keeps what it returned, the
\* streams as the sort left them, the subtitle list of the first evaluate,
\* the answers the request handler gave, and the streams map at the end
ResolveOnce ==
    /\ pc = "study"
    /\ rout.status = "none"
    /\ rout' = [status |-> "done", out |-> ResolveFresh(rin),
                ranked |-> RankedStreams(ResolvedStreams(rin)),
                subtitles |-> MapValues(VideoSubtitles(rin.dom)),
                answers |-> [i \in 1..Len(rin.early \o rin.late) |->
                               RequestAnswers((rin.early \o rin.late)[i])],
                streams |-> ResolvedStreams(rin)]
    /\ UNCHANGED <<now, catalogCache, streamCache, pc, req, loc, ret, prev, calls, site,
                   zeroRuns, rin>>

InitResolve ==
    /\ now = 0
    /\ catalogCache = <<>>
    /\ streamCache = <<>>
    /\ pc = "study"
    /\ req = NoCall
    /\ loc = Idle
    /\ ret = [status |-> "none", kind |-> "none"]
    /\ prev = [kind |-> "none"]
    /\ calls = 0
    /\ site = [n |-> 0, size |-> 2, twice |-> FALSE]
    /\ zeroRuns = {}
    /\ rin \in ResolverEnvs
    /\ rout = [status |-> "none"]

NextResolve == ResolveOnce

SpecResolve == InitResolve /\ [][NextResolve]_vars

----------------------------------------------------------------------------
(* The Cache class on its own: one table, every operation in every order *)

\* greatest TTL override passed to set
MaxOverride == 2

CacheKeys == {"k1", "k2"}

CacheValues == {"a", "b"}

\* the third argument of set: left out, or a number of hours
Overrides ==
    {[given |-> FALSE, ttl |-> 0]} \cup [given : {TRUE}, ttl : 0 .. MaxOverride]

\* `customTtl = null`: a call that leaves the override out passes a falsy one
CustomTtl(o) == IF o.given THEN o.ttl ELSE 0

\* cache.get(key); rout keeps the call, whether the table held the key, and
\* what came back
StudyGet(key) ==
    /\ pc = "cache"
    /\ rout' = [op |-> "get", key |-> key, at |-> now,
                had |-> key \in DOMAIN catalogCache,
                result |-> CacheGet(catalogCache, key, now)]
    /\ catalogCache' = CacheAfterGet(catalogCache, key, now)
    /\ UNCHANGED <<now, streamCache, pc, req, loc, ret, prev, calls, site, zeroRuns, rin>>

\* cache.set(key, value[, ttl]); loc.last keeps the value of the latest set
StudySet(key, value, o) ==
    /\ pc = "cache"
    /\ rout' = [op |-> "set", key |-> key, at |-> now, value |-> value, override |-> o]
    /\ catalogCache' = CacheSet(catalogCache, key, value, CustomTtl(o), CATALOG_TTL, now)
    /\ loc' = [loc EXCEPT !.last[key] = value]
    /\ UNCHANGED <<now, streamCache, pc, req, ret, prev, calls, site, zeroRuns, rin>>

\* cache.clear()
StudyClear ==
    /\ pc = "cache"
    /\ rout' = [op |-> "clear", at |-> now]
    /\ catalogCache' = <<>>
    /\ UNCHANGED <<now, streamCache, pc, req, loc, ret, prev, calls, site, zeroRuns, rin>>

\* an hour passes
StudyTick ==
    /\ pc = "cache"
    /\ now < MaxTime
    /\ now' = now + 1
    /\ rout' = [op |-> "tick", at |-> now]
    /\ UNCHANGED <<catalogCache, streamCache, pc, req, loc, ret, prev, calls, site,
                   zeroRuns, rin>>

InitCache ==
    /\ now = 0
    /\ catalogCache = <<>>
    /\ streamCache = <<>>
    /\ pc = "cache"
    /\ req = NoCall
    /\ loc = [at |-> "cache", last |-> [k \in CacheKeys |-> "none"]]
    /\ ret = [status |-> "none", kind |-> "none"]
    /\ prev = [kind |-> "none"]
    /\ calls = 0
    /\ site = [n |-> 0, size |-> 2, twice |-> FALSE]
    /\ zeroRuns = {}
    /\ rin = <<>>
    /\ rout = [op |-> "none", at |-> 0]

NextCache ==
    \/ \E key \in CacheKeys : StudyGet(key)
    \/ \E key \in CacheKeys, value \in CacheValues, o \in Overrides : StudySet(key, value, o)
    \/ StudyClear
    \/ StudyTick

SpecCache == InitCache /\ [][NextCache]_vars

-----------------------------------------------------------------------------
(* Overlapping calls: two handler calls on the popular listing, suspended *)
(* and resumed at their awaits. Arrays are objects: loc.heap keeps what    *)
(* each array holds, the cache and the calls keep references to them.      *)

\* calls started in one run
MaxRaceCalls == 2

Callers == {1, 2}

RaceKey == GlobalCacheKey("", "popular")

RaceSkips == {0, ITEMS_PER_PAGE}

\* the listings the overlapping calls crawl: a short one and a long one
RaceSites == {s \in Sites : s.n > 0 /\ s.size = 2 /\ ~s.twice}

\* a call that is not in progress; miss says that the call found the key
\* uncached, launches counts the sessions it launched
Waiting == [at |-> "idle", obj |-> 0, skip |-> 0, id |-> <<>>, pageNum |-> 0,
            pages |-> <<>>, stale |-> FALSE, miss |-> FALSE, launches |-> 0]

\* `catalogCache.get(key) || []`: the cached array, or a new empty one
ReadArray(heap) ==
    LET got == CacheGet(catalogCache, RaceKey, now)
    IN  IF got.hit THEN [heap |-> heap, obj |-> got.value, miss |-> FALSE]
        ELSE [heap |-> Append(heap, <<>>), obj |-> Len(heap) + 1, miss |-> TRUE]

\* catalogCache.set(key, array) by caller c: the other calls in progress have
\* not seen this write; rout keeps the sequence cached before and after
WriteArray(c, heap, obj, callers) ==
    /\ catalogCache' = CacheSet(catalogCache, RaceKey, obj, 0, CATALOG_TTL, now)
    /\ rout' = [op |-> "write", by |-> c,
                had |-> CacheGet(catalogCache, RaceKey, now).hit,
                before |-> IF RaceKey \in DOMAIN catalogCache
                           THEN loc.heap[catalogCache[RaceKey].value] ELSE <<>>,
                after |-> heap[obj],
                alone |-> ~loc.t[c].stale]
    /\ loc' = [heap |-> heap,
               t |-> [u \in Callers |->
                        IF u = c THEN [callers[u] EXCEPT !.stale = FALSE]
                        ELSE IF callers[u].at \in {"idle", "done"} THEN callers[u]
                        ELSE [callers[u] EXCEPT !.stale = TRUE]]]

\* caller c goes on without writing
NoWrite(c, state) ==
    /\ loc' = [loc EXCEPT !.t[c] = state]
    /\ UNCHANGED <<catalogCache, rout>>

\* a call made by caller c has ended
RaceDone(c) == [loc.t[c] EXCEPT !.at = "done"]

\* caller c calls the catalog handler: fetchCatalog reads the cache
RaceCatalogStart(c, skip) ==
    /\ pc = "race"
    /\ loc.t[c].at \in {"idle", "done"}
    /\ calls < MaxRaceCalls
    /\ calls' = calls + 1
    /\ LET r == ReadArray(loc.heap)
       IN  loc' = [heap |-> r.heap,
                   t |-> [loc.t EXCEPT ![c] = [Waiting EXCEPT !.at = "catalog",
                                                              !.obj = r.obj,
                                                              !.skip = skip,
                                                              !.miss = r.miss]]]
    /\ catalogCache' = CacheAfterGet(catalogCache, RaceKey, now)
    /\ UNCHANGED <<now, streamCache, pc, req, ret, prev, site, zeroRuns, rin, rout>>

\* the head of the while loop: the loop ends, or the pages of the batch are
\* chosen and the call waits for the session and the pages
RaceCatalogBegin(c) ==
    /\ pc = "race"
    /\ loc.t[c].at = "catalog"
    /\ LET allItems == loc.heap[loc.t[c].obj]
           pages == PagesToLoad(allItems)
       IN  IF ~NeedMore(allItems, loc.t[c].skip) \/ pages = <<>>
           THEN NoWrite(c, RaceDone(c))
           ELSE NoWrite(c, [loc.t[c] EXCEPT !.at = "fetching", !.pages = pages])
    /\ UNCHANGED <<now, streamCache, pc, req, ret, prev, calls, site, zeroRuns, rin>>

\* the awaits of the batch are over: merge and write, or leave the loop
RaceCatalogEnd(c) ==
    /\ pc = "race"
    /\ loc.t[c].at = "fetching"
    /\ LET pages == loc.t[c].pages
       IN  \/ NoWrite(c, RaceDone(c))                          \* launchBrowser() throws
           \/ \E results \in [1..Len(pages) -> PageEnvKinds], closeOk \in BOOLEAN :
                LET fetched == [i \in 1..Len(pages) |->
                                   FetchPage("popular", PageDom(site, pages[i]), results[i])]
                    pageItems == Flat([i \in 1..Len(pages) |-> fetched[i].items])
                    failed == \E i \in 1..Len(pages) : fetched[i].threw
                    merged == MergeBatch(loc.heap[loc.t[c].obj], pageItems)
                    heap == Append(loc.heap, merged)
                    state == [loc.t[c] EXCEPT !.obj = Len(heap), !.pages = <<>>,
                                              !.launches = @ + 1,
                                              !.at = IF closeOk THEN "catalog" ELSE "done"]
                IN  IF ~failed /\ pageItems # <<>>
                    THEN WriteArray(c, heap, Len(heap), [loc.t EXCEPT ![c] = state])
                    ELSE NoWrite(c, [RaceDone(c) EXCEPT !.launches = @ + 1])
    /\ UNCHANGED <<now, streamCache, pc, req, ret, prev, calls, site, zeroRuns, rin>>

\* caller c calls the meta or stream handler: it reads the cache and looks
\* the identity up
RaceLookupStart(c, id) ==
    /\ pc = "race"
    /\ loc.t[c].at \in {"idle", "done"}
    /\ calls < MaxRaceCalls
    /\ calls' = calls + 1
    /\ LET r == ReadArray(loc.heap)
           found == FindIndex(r.heap[r.obj], id) # 0
       IN  loc' = [heap |-> r.heap,
                   t |-> [loc.t EXCEPT ![c] = [Waiting EXCEPT
                                                 !.at = IF found THEN "done" ELSE "lookup",
                                                 !.obj = r.obj, !.id = id, !.pageNum = 1,
                                                 !.miss = r.miss]]]
    /\ catalogCache' = CacheAfterGet(catalogCache, RaceKey, now)
    /\ UNCHANGED <<now, streamCache, pc, req, ret, prev, site, zeroRuns, rin, rout>>

\* one iteration of the lookup loop: after its awaits the page is pushed
\* into the array the call holds and the array is written to the cache
RaceLookupPage(c) ==
    /\ pc = "race"
    /\ loc.t[c].at = "lookup"
    /\ IF ~LookupMore(loc.t[c].pageNum)
       THEN NoWrite(c, RaceDone(c))
       ELSE \/ NoWrite(c, RaceDone(c))                         \* launchBrowser() throws
            \/ NoWrite(c, [RaceDone(c) EXCEPT !.launches = @ + 1]) \* goto or status
            \/ \E e \in PageEnvKinds, closeOk \in BOOLEAN :
                 LET got == FetchPage("popular", PageDom(site, loc.t[c].pageNum), e)
                     obj == loc.t[c].obj
                     heap == [loc.heap EXCEPT ![obj] = PushItems(@, got.items)]
                     found == FindIndex(got.items, loc.t[c].id) # 0
                     state == [loc.t[c] EXCEPT
                                 !.launches = @ + 1,
                                 !.at = IF found \/ ~closeOk THEN "done" ELSE "lookup",
                                 !.pageNum = IF found \/ ~closeOk THEN @ ELSE @ + 1]
                 IN  IF ~got.threw /\ got.items # <<>>
                     THEN WriteArray(c, heap, obj, [loc.t EXCEPT ![c] = state])
                     ELSE NoWrite(c, [RaceDone(c) EXCEPT !.launches = @ + 1])
    /\ UNCHANGED <<now, streamCache, pc, req, ret, prev, calls, site, zeroRuns, rin>>

InitRace ==
    /\ now = 0
    /\ catalogCache = <<>>
    /\ streamCache = <<>>
    /\ pc = "race"
    /\ req = NoCall
    /\ loc = [heap |-> <<>>, t |-> [c \in Callers |-> Waiting]]
    /\ ret = [status |-> "none", kind |-> "none"]
    /\ prev = [kind |-> "none"]
    /\ calls = 0
    /\ site \in RaceSites
    /\ zeroRuns = {}
    /\ rin = <<>>
    /\ rout = [op |-> "none"]

NextRace ==
    \/ \E c \in Callers, skip \in RaceSkips : RaceCatalogStart(c, skip)
    \/ \E c \in Callers : RaceCatalogBegin(c)
    \/ \E c \in Callers : RaceCatalogEnd(c)
    \/ \E c \in Callers, id \in LookupIds : RaceLookupStart(c, id)
    \/ \E c \in Callers : RaceLookupPage(c)

SpecRace == InitRace /\ [][NextRace]_vars

-----------------------------------------------------------------------------
(* fetchPage on its own: one call under every outcome of its awaits, as   *)
(* the first page of a batch whose second page loads well                 *)

\* the listing pages fetched
PageDoms == {PageDom(s, p) : s \in Sites, p \in {1, 2}}

\* the second page of the batch and the awaits of its fetchPage
OtherDom == PageDom([n |-> 3, size |-> 2, twice |-> FALSE], 2)

GoodPageEnv ==
    [newPage |-> TRUE, nav |-> [i \in 1..3 |-> "200"], wait |-> TRUE, evalOk |-> TRUE,
     close |-> TRUE]

\* fetchPage runs on the page rin.dom under the outcomes rin.e; rout keeps its
\* flow, what it gave, and what the batch of the two pages makes of it
FetchOnce ==
    /\ pc = "page"
    /\ rout.status = "none"
    /\ LET got == FetchPage("popular", rin.dom, rin.e)
           other == FetchPage("popular", OtherDom, GoodPageEnv)
       IN  rout' = [status |-> "done", flow |-> FetchPageFlow(rin.e), got |-> got,
                    batch |-> [failed |-> got.threw \/ other.threw,
                               pageItems |-> Flat(<<got.items, other.items>>)]]
    /\ UNCHANGED <<now, catalogCache, streamCache, pc, req, loc, ret, prev, calls, site,
                   zeroRuns, rin>>

InitPage ==
    /\ now = 0
    /\ catalogCache = <<>>
    /\ streamCache = <<>>
    /\ pc = "page"
    /\ req = NoCall
    /\ loc = Idle
    /\ ret = [status |-> "none", kind |-> "none"]
    /\ prev = [kind |-> "none"]
    /\ calls = 0
    /\ site = [n |-> 0, size |-> 2, twice |-> FALSE]
    /\ zeroRuns = {}
    /\ rin \in [e : PageEnvs, dom : PageDoms]
    /\ rout = [status |-> "none"]

NextPageStudy == FetchOnce

SpecPage == InitPage /\ [][NextPageStudy]_vars

-----------------------------------------------------------------------------
(* The URL repair of fetchVideoDetails on its own *)

\* longest URL, in tokens, among those tried besides the detail URLs
MaxUrlLen == 3

UrlTokens == {"https://", "hstream.moe", "/hentai/", "v1"}

\* the detail URLs of the listing
CleanUrls == {DetailHref(AllSlugs[i]) : i \in 1..Len(AllSlugs)}

\* a detail URL behind a second origin: 'https://hstream.moe' + U
Doubled(u) == <<"https://", "hstream.moe">> \o u

\* the URLs handed to fetchVideoDetails
StudyUrls == CleanUrls \cup {Doubled(u) : u \in CleanUrls} \cup SeqsUpTo(UrlTokens, MaxUrlLen)

\* fetchVideoDetails repairs rin.url; rout keeps the URL it goes on with, which
\* it navigates to, and the cache key made of it
NormalizeOnce ==
    /\ pc = "url"
    /\ rout.status = "none"
    /\ rout' = [status |-> "done", url |-> NormalizeUrl(rin.url),
                key |-> DetailsKey(NormalizeUrl(rin.url))]
    /\ UNCHANGED <<now, catalogCache, streamCache, pc, req, loc, ret, prev, calls, site,
                   zeroRuns, rin>>

InitUrl ==
    /\ now = 0
    /\ catalogCache = <<>>
    /\ streamCache = <<>>
    /\ pc = "url"
    /\ req = NoCall
    /\ loc = Idle
    /\ ret = [status |-> "none", kind |-> "none"]
    /\ prev = [kind |-> "none"]
    /\ calls = 0
    /\ site = [n |-> 0, size |-> 2, twice |-> FALSE]
    /\ zeroRuns = {}
    /\ rin \in [url : StudyUrls]
    /\ rout = [status |-> "none"]

NextUrl == NormalizeOnce

SpecUrl == InitUrl /\ [][NextUrl]_vars

-----------------------------------------------------------------------------
(* One call of fetchCatalog on the uncached popular listing, with the page *)
(* fetches of a batch in flight together: every fetchPage is suspended and *)
(* resumed at its awaits. loc.sessions are the sessions open, loc.open the *)
(* page contexts open, each with the session it belongs to.                *)

\* the offsets asked for
BatchSkips == {0, ITEMS_PER_PAGE, 2 * ITEMS_PER_PAGE - 1}

BatchKey == GlobalCacheKey("", "popular")

\* a newPage that hands out the same context again
NewPageShared(ctxs) == 1

\* browser.newPage(): the context it creates, ctxs contexts having been
\* created before
NewPage(ctxs) == ctxs + 1

\* a flattening in the order in which the fetches settled
BatchItemsAsSettled(f, settled) ==
    Flat([k \in 1..Len(settled) |-> f[settled[k]].items])

\* `pages.flat().filter(Boolean)`: Promise.all gives the results of the
\* fetches f in the order of pagesToLoad, whatever order they settled in
BatchItems(f, settled) ==
    Flat([i \in 1..Len(f) |-> f[i].items])

\* a fetchPage that has been called and awaits its newPage()
Called == [at |-> "start", ctx |-> 0, items |-> <<>>]

\* the head of the while loop: the loop ends, or the pages are chosen, the
\* session is launched and fetchPage is called for every page
BatchBegin ==
    /\ pc = "batch"
    /\ loc.at = "head"
    /\ LET pages == PagesToLoad(loc.allItems)
       IN  IF ~NeedMore(loc.allItems, loc.skip) \/ pages = <<>>
           THEN loc' = [loc EXCEPT !.at = "returned"]
           ELSE \/ loc' = [loc EXCEPT !.at = "returned", !.batches = @ + 1]  \* launch throws
                \/ loc' = [loc EXCEPT !.at = "awaiting", !.batches = @ + 1,
                                      !.launches = @ + 1,
                                      !.sessions = @ \cup {loc.launches + 1},
                                      !.pages = pages,
                                      !.f = [i \in 1..Len(pages) |-> Called],
                                      !.settled = <<>>]
    /\ rout' = [op |-> "begin"]
    /\ UNCHANGED <<now, catalogCache, streamCache, pc, req, ret, prev, calls, site,
                   zeroRuns, rin>>

\* the newPage() of the i-th fetch settles: a context of the batch's session,
\* or a rejection, the only outcome once the session is closed
PageOpen(i) ==
    /\ pc = "batch"
    /\ i \in 1..Len(loc.f)
    /\ loc.f[i].at = "start"
    /\ \E ok \in BOOLEAN :
          /\ ok => loc.launches \in loc.sessions
          /\ loc' = IF ok
                    THEN [loc EXCEPT !.f[i] = [@ EXCEPT !.at = "open",
                                                        !.ctx = NewPage(loc.ctxs)],
                                     !.ctxs = @ + 1,
                                     !.open = @ \cup {[id |-> NewPage(loc.ctxs),
                                                       session |-> loc.launches]}]
                    ELSE [loc EXCEPT !.f[i].at = "threw"]
    /\ rout' = [op |-> "open", i |-> i]
    /\ UNCHANGED <<now, catalogCache, streamCache, pc, req, ret, prev, calls, site,
                   zeroRuns, rin>>

\* the i-th fetch runs on its context to its return: the records it extracted,
\* or none (none as well when the context is gone with its session); the
\* `finally` closes the context, a rejection of close() being swallowed
PageReturn(i) ==
    /\ pc = "batch"
    /\ i \in 1..Len(loc.f)
    /\ loc.f[i].at = "open"
    /\ \E e \in PageEnvKinds, closeOk \in BOOLEAN :
          /\ e.newPage
          /\ LET alive == \E x \in loc.open : x.id = loc.f[i].ctx
                 got == FetchPage("popular", PageDom(site, loc.pages[i]), e)
             IN  loc' = [loc EXCEPT !.f[i] = [@ EXCEPT !.at = "done",
                                                       !.items = IF alive THEN got.items
                                                                 ELSE <<>>],
                                    !.settled = Append(@, i),
                                    !.open = IF closeOk
                                             THEN {x \in @ : x.id # loc.f[i].ctx}
                                             ELSE @]
    /\ rout' = [op |-> "return", i |-> i]
    /\ UNCHANGED <<now, catalogCache, streamCache, pc, req, ret, prev, calls, site,
                   zeroRuns, rin>>

\* Promise.all settles: it resolves when every fetch has returned and rejects
\* when one has thrown; then the merge and the set, or the `break`, and the
\* `finally` that closes the session and with it the contexts left in it
BatchSettle ==
    /\ pc = "batch"
    /\ loc.at = "awaiting"
    /\ LET threw == \E i \in 1..Len(loc.f) : loc.f[i].at = "threw"
           done == \A i \in 1..Len(loc.f) : loc.f[i].at = "done"
       IN  /\ threw \/ done
           /\ \E closeOk \in BOOLEAN :
                LET pageItems == BatchItems(loc.f, loc.settled)
                    stored == done /\ pageItems # <<>>
                    merged == MergeBatch(loc.allItems, pageItems)
                    sid == loc.launches
                IN  /\ catalogCache' =
                          IF stored
                          THEN CacheSet(catalogCache, BatchKey, merged, 0, CATALOG_TTL, now)
                          ELSE catalogCache
                    /\ loc' = [loc EXCEPT
                                 !.allItems = IF stored THEN merged ELSE @,
                                 !.sessions = IF closeOk THEN @ \ {sid} ELSE @,
                                 !.open = IF closeOk THEN {x \in @ : x.session # sid} ELSE @,
                                 !.at = IF ~closeOk THEN "threw"
                                        ELSE IF stored THEN "head" ELSE "returned"]
                    /\ rout' = [op |-> "settle", stored |-> stored, settled |-> loc.settled,
                                f |-> loc.f, pages |-> loc.pages]
    /\ UNCHANGED <<now, streamCache, pc, req, ret, prev, calls, site, zeroRuns, rin>>

InitBatch ==
    /\ now = 0
    /\ catalogCache = <<>>
    /\ streamCache = <<>>
    /\ pc = "batch"
    /\ req = NoCall
    /\ \E skip \in BatchSkips :
          loc = [at |-> "head", skip |-> skip, allItems |-> <<>>, batches |-> 0,
                 launches |-> 0, sessions |-> {}, open |-> {}, ctxs |-> 0, pages |-> <<>>,
                 f |-> <<>>, settled |-> <<>>]
    /\ ret = [status |-> "none", kind |-> "none"]
    /\ prev = [kind |-> "none"]
    /\ calls = 0
    /\ site \in Sites
    /\ zeroRuns = {}
    /\ rin = <<>>
    /\ rout = [op |-> "none"]

NextBatch ==
    \/ BatchBegin
    \/ \E i \in 1..CONCURRENT_PAGES : PageOpen(i)
    \/ \E i \in 1..CONCURRENT_PAGES : PageReturn(i)
    \/ BatchSettle

SpecBatch == InitBatch /\ [][NextBatch]_vars

-----------------------------------------------------------------------------
(* The age of the records served: the popular namespace under whole calls *)
(* of the handlers whose awaits all succeed, each record keeping the time *)
(* of the crawl that fetched it                                           *)

\* handler calls in one run
MaxAgeCalls == 3

\* the records fetchPage extracts from listing page p at time t
CrawledAt(p, t) ==
    LET items == ExtractAll(PageDom(site, p), "popular")
    IN  [i \in 1..Len(items) |-> items[i] @@ [fetched |-> t]]

RECURSIVE FetchCatalogLoop(_, _, _)
\* the while loop of fetchCatalog, run at time t from the sequence allItems
FetchCatalogLoop(allItems, skip, t) ==
    IF ~NeedMore(allItems, skip) THEN allItems
    ELSE LET pages == PagesToLoad(allItems)
             pageItems == Flat([i \in 1..Len(pages) |-> CrawledAt(pages[i], t)])
         IN  IF pages = <<>> \/ pageItems = <<>> THEN allItems
             ELSE FetchCatalogLoop(MergeBatch(allItems, pageItems), skip, t)

RECURSIVE LookupLoop(_, _, _, _)
\* the while loop of the meta and stream handlers, run at time t: the array
\* it leaves and the item it found, if any
LookupLoop(cachedItems, pageNum, id, t) ==
    IF ~LookupMore(pageNum) THEN [items |-> cachedItems, item |-> <<>>]
    ELSE LET pageItems == CrawledAt(pageNum, t)
             pushed == PushItems(cachedItems, pageItems)
             at == FindIndex(pageItems, id)
         IN  IF pageItems = <<>> THEN [items |-> cachedItems, item |-> <<>>]
             ELSE IF at # 0 THEN [items |-> pushed, item |-> <<pageItems[at]>>]
             ELSE LookupLoop(pushed, pageNum + 1, id, t)

\* a call of the catalog handler; rout keeps the records it served
AgeCatalog(skip) ==
    /\ pc = "age"
    /\ calls < MaxAgeCalls
    /\ LET had == CachedItems(catalogCache, BatchKey, now)
           swept == CacheAfterGet(catalogCache, BatchKey, now)
           allItems == FetchCatalogLoop(had, skip, now)
       IN  /\ catalogCache' = IF allItems # had
                              THEN CacheSet(swept, BatchKey, allItems, 0, CATALOG_TTL, now)
                              ELSE swept
           /\ rout' = [op |-> "catalog", at |-> now, served |-> CatalogSlice(allItems, skip),
                       crawled |-> allItems # had]
    /\ calls' = calls + 1
    /\ UNCHANGED <<now, streamCache, pc, req, loc, ret, prev, site, zeroRuns, rin>>

\* a call of the meta or stream handler; rout keeps the record it found
AgeLookup(id) ==
    /\ pc = "age"
    /\ calls < MaxAgeCalls
    /\ LET had == CachedItems(catalogCache, BatchKey, now)
           swept == CacheAfterGet(catalogCache, BatchKey, now)
           at == FindIndex(had, id)
           looked == LookupLoop(had, 1, id, now)
       IN  IF at # 0
           THEN /\ catalogCache' = swept
                /\ rout' = [op |-> "lookup", at |-> now, served |-> <<had[at]>>,
                            crawled |-> FALSE]
           ELSE /\ catalogCache' = IF looked.items # had
                                   THEN CacheSet(swept, BatchKey, looked.items, 0,
                                                 CATALOG_TTL, now)
                                   ELSE swept
                /\ rout' = [op |-> "lookup", at |-> now, served |-> looked.item,
                            crawled |-> looked.items # had]
    /\ calls' = calls + 1
    /\ UNCHANGED <<now, streamCache, pc, req, loc, ret, prev, site, zeroRuns, rin>>

\* an hour passes
AgeTick ==
    /\ pc = "age"
    /\ now < MaxTime
    /\ now' = now + 1
    /\ UNCHANGED <<catalogCache, streamCache, pc, req, loc, ret, prev, calls, site,
                   zeroRuns, rin, rout>>

InitAge ==
    /\ now = 0
    /\ catalogCache = <<>>
    /\ streamCache = <<>>
    /\ pc = "age"
    /\ req = NoCall
    /\ loc = Idle
    /\ ret = [status |-> "none", kind |-> "none"]
    /\ prev = [kind |-> "none"]
    /\ calls = 0
    /\ site \in Sites
    /\ zeroRuns = {}
    /\ rin = <<>>
    /\ rout = [op |-> "none", at |-> 0, served |-> <<>>, crawled |-> FALSE]

NextAge ==
    \/ \E skip \in BatchSkips : AgeCatalog(skip)
    \/ \E id \in LookupIds : AgeLookup(id)
    \/ AgeTick

SpecAge == InitAge /\ [][NextAge]_vars

-----------------------------------------------------------------------------
(* properties of the catalog builder and the handlers, under Spec *)

\* the catalog handler has answered the request req
CatalogDone == pc = "idle" /\ ret.kind = "catalog" /\ ret.status = "ok"

\* the accumulated sequence of the namespace of req when its call returned
Accumulated ==
    CachedItems(catalogCache, GlobalCacheKey(req.search, req.catalogType), ret.start)

\* C1: fetchCatalog returns exactly the entries at indices
\* [offset, min(offset + page size, L)) of the namespace's accumulated
\* sequence, in order, L being the accumulated length when the call returns:
\* at most a page of entries, none when offset >= L.
SliceIsWindow ==
    CatalogDone =>
        LET L == Len(Accumulated)
            n == IF req.skip >= L THEN 0 ELSE Min(req.skip + ITEMS_PER_PAGE, L) - req.skip
        IN  /\ Len(ret.value) = n
            /\ n <= ITEMS_PER_PAGE
            /\ \A i \in 1..n : ret.value[i] = Accumulated[req.skip + i]
            /\ ret.accLen = L

\* C1 at work: a full window that starts inside a page and ends before the
\* end of the accumulated sequence
SliceIsWindowSeen ==
    /\ CatalogDone
    /\ req.skip = 1
    /\ Len(ret.value) = ITEMS_PER_PAGE
    /\ Len(Accumulated) > req.skip + ITEMS_PER_PAGE

\* C2: whatever catalog requests and lookups were served, no namespace's
\* cached sequence holds two entries with the same identity.
NoDuplicateIdentity ==
    \A key \in DOMAIN catalogCache :
        \A i, j \in 1..Len(catalogCache[key].value) :
            i # j => catalogCache[key].value[i].id # catalogCache[key].value[j].id

FirstWindow == [kind |-> "catalog", skip |-> 0, search |-> "", catalogType |-> "popular"]

\* the handler has just served the first window of the popular listing for the
\* second time in a row
SecondInARow ==
    /\ pc = "idle"
    /\ ret.kind = "catalog" /\ ret.status \in {"ok", "threw"}
    /\ req = FirstWindow
    /\ prev.kind = "catalog" /\ prev.req = FirstWindow

\* C3 as stated: the second of two calls for the first popular window made
\* within the cache lifetime fetches no page and launches no session, whatever
\* the first call's crawl returned.
SecondCallIsFree ==
    (SecondInARow /\ ret.start <= prev.start + CATALOG_TTL)
        => ret.fetches = 0 /\ ret.launches = 0

\* C3, amended: the second call fetches no page and launches no session when
\* the first call left at least a page of records accumulated in the namespace
\* and the second starts before that cache entry expires.
SecondCallIsFreeWhenFull ==
    (SecondInARow /\ prev.full /\ ret.start <= prev.expires)
        => ret.fetches = 0 /\ ret.launches = 0 /\ ret.batches = 0

\* C3 at work: a second call, hours after a first one that filled the window
SecondCallIsFreeSeen ==
    /\ SecondInARow /\ prev.full
    /\ prev.start < ret.start /\ ret.start <= prev.expires
    /\ ret.status = "ok" /\ Len(ret.value) = ITEMS_PER_PAGE

\* C4: no public operation throws: whatever fails, the catalog, meta and
\* stream handlers return a well-shaped result.
NeverThrows == ret.status # "threw"

\* C5: the stream handler, for an item it found whose resolution yields no
\* valid stream (a failed resolution included), returns exactly one payload,
\* without url, whose externalUrl is the item's detail URL; also when the
\* resolution is served from the cache.
FallbackPayload ==
    (pc = "idle" /\ ret.kind = "stream" /\ ret.status = "ok" /\ ret.found /\ ret.zero)
        => /\ Len(ret.value.streams) = 1
           /\ "url" \notin DOMAIN ret.value.streams[1]
           /\ "externalUrl" \in DOMAIN ret.value.streams[1]
           /\ ret.value.streams[1].externalUrl = DetailHref(req.id[3])

\* C5 at work: the second stream request for an item, answered from a cached
\* resolution that had found subtitles but no valid stream
FallbackPayloadSeen ==
    /\ pc = "idle" /\ ret.kind = "stream" /\ ret.status = "ok" /\ ret.found /\ ret.zero
    /\ ret.fromCache
    /\ prev.kind = "stream"
    /\ "subtitles" \in DOMAIN ret.value.streams[1]

\* the cache held whole pages of unique records, below the ceiling, and the
\* window asked for starts inside them and ends beyond them
SeededWindow ==
    /\ CatalogDone
    /\ req.search = "" /\ req.catalogType = "popular"
    /\ Len(ret.had) > 0 /\ Len(ret.had) % ITEMS_PER_PAGE = 0
    /\ Len(ret.had) < MAX_PAGES * ITEMS_PER_PAGE
    /\ \A i, j \in 1..Len(ret.had) : i # j => ret.had[i].id # ret.had[j].id
    /\ req.skip < Len(ret.had) /\ Len(ret.had) < req.skip + ITEMS_PER_PAGE

----------------------------------------------------------------------------
(* properties of the resolver, under SpecResolve *)

\* the URL parses with protocol https:
HttpsUrl(url) == url # <<>> /\ url[1] \in {"https://", "HTTPS://"}

\* every await of the resolution succeeded
AwaitsOk(e) ==
    e.launch /\ e.newPage /\ e.goto /\ e.video /\ e.evalOk /\ e.metaOk /\ e.close

Requests(e) == e.early \o e.late

\* the stream candidates of a page: intercepted media requests whose URL
\* names a quality, and DOM sources with a quality
Candidates(e) ==
    {[url |-> u, quality |-> RequestQuality(u)] :
        u \in {v \in Range(Requests(e)) : IsMedia(v) /\ RequestQuality(v) # <<>>}}
    \cup {[url |-> x.src, quality |-> x.quality] :
            x \in {y \in Range(e.dom.sources) : y.src # <<>> /\ y.quality # <<"Unknown">>}}

\* C6: no stream entry of the resolver has a URL that is not HTTPS or does not
\* parse; such candidates, intercepted or read from the DOM, are dropped and
\* the resolution does not fail because of them.
OnlyHttpsStreams ==
    rout.status = "done" =>
        /\ \A i \in 1..Len(rout.out.result.streams) : HttpsUrl(rout.out.result.streams[i].url)
        /\ AwaitsOk(rin) =>
              /\ ~rout.out.threw /\ rout.out.cached
              /\ \A c \in Candidates(rin) :
                    (HttpsUrl(c.url) /\ \A d \in Candidates(rin) : d.quality = c.quality => d = c)
                        => \E i \in 1..Len(rout.out.result.streams) :
                              rout.out.result.streams[i].url = c.url

\* C6 at work: an http request, a DOM source that does not parse, and a
\* stream that stays
OnlyHttpsStreamsSeen ==
    /\ rout.status = "done" /\ AwaitsOk(rin)
    /\ \E c \in Candidates(rin) : c.url[1] = "http://"
    /\ \E c \in Candidates(rin) : c.url[1] = "//["
    /\ Len(rout.out.result.streams) >= 1

\* the numeric rank of a quality label: the greatest recognised number in it,
\* 0 without one
QualityRank(label) ==
    LET nums == {NumOf(t) : t \in NumTokens \cap Range(label)} \cup {0}
    IN  CHOOSE m \in nums : \A k \in nums : k <= m

\* C7: the resolved streams are in non-increasing numeric quality rank
\* (2160 > 1080 > 720 > 480 > 360), labels without a recognised number last;
\* labels 360p, 1080p, 720p, in whatever order observed, come out as 1080p,
\* 720p, 360p.
RankedDescending ==
    (rout.status = "done" /\ rout.out.cached) =>
        LET streams == rout.out.result.streams
            ranked == rout.ranked
        IN  /\ Len(streams) = Len(ranked)
            /\ \A i \in 1..Len(ranked) : streams[i].url = ranked[i].url
            /\ \A i, j \in 1..Len(ranked) :
                  i < j => QualityRank(ranked[i].quality) >= QualityRank(ranked[j].quality)
            /\ {ranked[i].quality : i \in 1..Len(ranked)}
                    = {Label("360"), Label("1080"), Label("720")}
                  => [i \in 1..Len(streams) |-> streams[i].title]
                        = << <<"Full HD">>, <<"HD">>, <<"Low Quality">> >>

\* C7 at work: 360p, 1080p and 720p seen in that order, and a label without a
\* recognised number
RankedDescendingSeen ==
    /\ rout.status = "done" /\ rout.out.cached
    /\ rin.early = <<MediaUrl("https://", "cdn", "360"), MediaUrl("https://", "cdn", "1080"),
                     MediaUrl("https://", "cdn", "720")>>
    /\ Len(rout.ranked) = 4
    /\ rout.ranked[4].quality = <<"1440", "p">>

\* the positions of the media requests read as quality q
Intercepted(e, q) ==
    {i \in 1..Len(Requests(e)) : IsMedia(Requests(e)[i]) /\ RequestQuality(Requests(e)[i]) = q}

InDom(e, q) == \E x \in Range(e.dom.sources) : x.src # <<>> /\ x.quality = q

Greatest(S) == CHOOSE m \in S : \A k \in S : k <= m

\* C8: at most one resolved stream per quality; for a quality seen both by
\* interception and in the DOM, the entry carries the intercepted URL, never
\* the DOM one.
InterceptionFirst ==
    (rout.status = "done" /\ rout.out.cached) =>
        /\ \A i, j \in 1..Len(rout.ranked) :
              i # j => rout.ranked[i].quality # rout.ranked[j].quality
        /\ \A n \in NumTokens :
              (Intercepted(rin, Label(n)) # {} /\ InDom(rin, Label(n))) =>
                LET last == Requests(rin)[Greatest(Intercepted(rin, Label(n)))]
                IN  /\ \A k \in 1..Len(rout.ranked) :
                          rout.ranked[k].quality = Label(n) =>
                              /\ rout.ranked[k].url = last
                              /\ rout.out.result.streams[k].url = last
                    /\ HttpsUrl(last) =>
                          \E k \in 1..Len(rout.ranked) : rout.ranked[k].quality = Label(n)

\* C8 at work: 720p intercepted over https and present in the DOM
InterceptionFirstSeen ==
    /\ rout.status = "done" /\ rout.out.cached
    /\ rin.early = <<MediaUrl("https://", "cdn", "720")>> /\ rin.late = <<>>
    /\ InDom(rin, Label("720"))
    /\ Len(rout.out.result.streams) = 1
    /\ rout.out.result.streams[1].url = MediaUrl("https://", "cdn", "720")

\* C9: an English download button and an `eng` track give one subtitle entry
\* for the language, the button's: a track never overwrites or duplicates the
\* entry of a download button of the same language.
ButtonBeforeTrack ==
    (/\ rout.status = "done" /\ rout.out.cached
     /\ \E b \in Range(rin.dom.buttons) : b.href # <<>> /\ b.word = "English"
     /\ \E t \in Range(rin.dom.tracks) : t.src # <<>> /\ t.srclang \in {"eng", "English"})
        => LET eng == {i \in 1..Len(rout.subtitles) : rout.subtitles[i].lang \in {"eng", "English"}}
           IN  /\ Cardinality(eng) = 1
               /\ \A i \in eng :
                     \E b \in Range(rin.dom.buttons) : b.href = rout.subtitles[i].url

----------------------------------------------------------------------------
(* further properties of the catalog builder, under Spec *)

\* the cache held records, below the ceiling, and the window asked for starts
\* right after the last of them
NextWindow ==
    /\ CatalogDone
    /\ Len(ret.had) > 0
    /\ req.skip = Len(ret.had)
    /\ Len(ret.had) + ITEMS_PER_PAGE <= MAX_PAGES * ITEMS_PER_PAGE

\* C11: with the cache holding the records up to the offset (1500 records,
\* offset 1500), the call runs exactly one more crawl batch, with one session
\* launch at most, and returns what the accumulated sequence holds from the
\* offset on, whether that batch yields records or nothing.
OneMoreBatch ==
    NextWindow =>
        /\ ret.batches = 1
        /\ ret.launches <= 1
        /\ ret.value = Slice(Accumulated, req.skip,
                             Min(req.skip + ITEMS_PER_PAGE, Len(Accumulated)))

IsPrefix(a, b) == Len(a) <= Len(b) /\ \A i \in 1..Len(a) : a[i] = b[i]

\* a handler call has ended, by returning or by throwing
CallEnded == pc = "idle" /\ ret.status \in {"ok", "threw"}

\* C12: every batch of the catalog builder and every resolution that misses
\* the cache launches one session (none when the launch itself fails), and
\* close() has been called on every launched session when the batch ends and
\* when the call ends, on every exit path: no session is open between two
\* batches or after the call.
SessionsClosed ==
    /\ pc = "catalog" =>
          /\ loc.closes = loc.launches
          /\ loc.launches = loc.batches
    /\ (CallEnded /\ ret.kind = "catalog") =>
          /\ ret.closes = ret.launches
          /\ ret.launches <= ret.batches /\ ret.batches <= ret.launches + 1
          /\ ret.fetches > 0 => ret.launches > 0
    /\ (CallEnded /\ ret.kind \in {"meta", "stream"} /\ "fromCache" \in DOMAIN ret) =>
          /\ ret.fromCache => ret.rlaunched = 0 /\ ret.rcloses = 0
          /\ ~ret.fromCache => ret.rlaunched = 1 /\ ret.rcloses >= 1

\* C12 at work: a stream request whose resolution missed the cache, failed,
\* and closed its session in the catch block
SessionsClosedSeen ==
    /\ CallEnded /\ ret.kind = "stream" /\ ret.status = "ok"
    /\ ret.found /\ ~ret.fromCache
    /\ ret.rlaunched = 1 /\ ret.rcloses = 1
    /\ DetailsKey(NormalizeUrl(ret.link)) \notin DOMAIN streamCache

\* the stream-cache key of the item a handler is about to resolve
ResolveKey == DetailsKey(NormalizeUrl(loc.item.link))

\* the handler is about to resolve an item whose details are cached and live
LiveDetails ==
    /\ pc = "resolve"
    /\ ResolveKey \in DOMAIN streamCache
    /\ now <= streamCache[ResolveKey].expires

\* C14: a resolution that finds a live stream-cache entry for the normalized
\* detail URL answers from it and launches no session; an entry is stored
\* with expiry now + STREAM_TTL and only a resolution touches the stream
\* cache, so after a successful resolution every further one within the TTL
\* performs no render.
CacheHitNoRender ==
    [][ /\ (LiveDetails /\ pc' = "idle") =>
              /\ ret'.fromCache
              /\ ret'.rlaunched = 0 /\ ret'.rcloses = 0
              /\ ret'.launches = loc.launches /\ ret'.closes = loc.closes
              /\ DOMAIN streamCache' = DOMAIN streamCache
              /\ streamCache'[ResolveKey].expires = streamCache[ResolveKey].expires
        /\ (pc = "resolve" /\ pc' = "idle" /\ ~LiveDetails /\ ret'.status = "ok"
              /\ ResolveKey \in DOMAIN streamCache') =>
              streamCache'[ResolveKey].expires = now + STREAM_TTL
        /\ pc # "resolve" => streamCache' = streamCache ]_vars

\* C14 at work: a resolution answered from an entry in the last instant of
\* its life
CacheHitNoRenderSeen ==
    /\ CallEnded /\ ret.kind \in {"meta", "stream"}
    /\ "fromCache" \in DOMAIN ret /\ ret.fromCache
    /\ DetailsKey(NormalizeUrl(ret.link)) \in DOMAIN streamCache
    /\ streamCache[DetailsKey(NormalizeUrl(ret.link))].expires = ret.start
    /\ ret.start > 0

\* a meta or stream call has ended
LookupEnded == CallEnded /\ ret.kind \in {"meta", "stream"}

\* C19: the lookup loop of the meta and stream handlers ends: at the head of
\* every iteration pageNum is one more than the number of iterations made
\* and at most MAX_PAGES + 1, a step of the loop is always possible, and a
\* finished call has made at most MAX_PAGES iterations, each fetching at
\* most the one page of its number, so no page above the ceiling is asked for.
LookupTerminates ==
    /\ pc = "lookup" =>
          /\ loc.pageNum = loc.batches + 1
          /\ loc.pageNum <= MAX_PAGES + 1
          /\ loc.fetches = loc.batches
          /\ FindIndex(loc.cachedItems, req.id) = 0
          /\ ENABLED (LookupPage \/ LookupExhausted)
    /\ LookupEnded =>
          /\ ret.batches <= MAX_PAGES
          /\ ret.fetches <= ret.batches

\* C19 at work: a lookup has crawled every page up to the ceiling, each with
\* records, without finding the identity
LookupTerminatesSeen ==
    /\ LookupEnded /\ ret.status = "ok" /\ ~ret.found
    /\ ret.batches = MAX_PAGES /\ ret.fetches = MAX_PAGES
    /\ ret.accLen >= MAX_PAGES

\* the length at which the loop of fetchCatalog stops for the request req
EnoughItems == Min(req.skip + ITEMS_PER_PAGE, MAX_PAGES * ITEMS_PER_PAGE)

\* C20: fetchCatalog ends: every iteration of its loop that does not leave
\* the loop makes the accumulated sequence strictly longer, the loop runs
\* only below offset + ITEMS_PER_PAGE and below the ceiling
\* MAX_PAGES * ITEMS_PER_PAGE, and a step of the loop is always possible; so
\* a call makes no more iterations than it had records to gain.
CatalogTerminates ==
    /\ pc = "catalog" =>
          /\ Len(loc.allItems) >= Len(loc.had) + loc.batches
          /\ loc.batches > 0 => Len(loc.had) < EnoughItems
          /\ IsPrefix(loc.had, loc.allItems)
          /\ ENABLED (CatalogBatch \/ CatalogReturn)
    /\ CatalogDone =>
          /\ ret.batches <= Max(0, EnoughItems - Len(ret.had))
          /\ ret.accLen >= Len(ret.had) + ret.batches - 1
    /\ (CallEnded /\ ret.kind = "catalog") =>
          ret.batches <= MAX_PAGES * ITEMS_PER_PAGE

\* C20 at work: a call that started from nothing made two batches, each
\* adding records, and stopped with the window filled
CatalogTerminatesSeen ==
    /\ CatalogDone /\ ret.had = <<>>
    /\ ret.batches = 2
    /\ ret.accLen >= req.skip + ITEMS_PER_PAGE
    /\ Len(ret.value) = ITEMS_PER_PAGE

\* C18: the cache is partitioned by search term and sort order: the entries
\* a catalog request returns were crawled and identified under the sort
\* order of the request, and every cached entry lies in the namespace that
\* the meta and stream handlers consult for its identity.
NamespacePartition ==
    /\ CatalogDone =>
          \A i \in 1..Len(ret.value) : ret.value[i].id[2] = req.catalogType
    /\ \A k \in DOMAIN catalogCache :
          \A i \in 1..Len(catalogCache[k].value) :
              IdCacheKey(catalogCache[k].value[i].id) = k

-----------------------------------------------------------------------------
(* further properties of the resolver, under SpecResolve *)

\* some step of the resolution after the cache check has failed
StepFailed ==
    /\ rout.status = "done"
    /\ ~(rin.launch /\ rin.newPage /\ rin.goto /\ rin.video /\ rin.evalOk /\ rin.metaOk)

\* C13: when a step of the resolution after the cache check fails,
\* fetchVideoDetails closes the session it opened and returns the degraded
\* result {title: 'Unknown', streams: []}; the failure does not leave the
\* function and nothing is cached.
DegradedOnFailure ==
    StepFailed =>
        /\ ~rout.out.threw
        /\ rout.out.result = Degraded
        /\ ~rout.out.cached
        /\ rout.out.closes >= rout.out.launched

-----------------------------------------------------------------------------
(* properties of the Cache class, under SpecCache *)

\* C15: get answers absent for a key the table does not hold and for a key
\* whose expiry time has passed, and deletes the entry in the second case;
\* for a live entry it answers the value of the latest set of the key and
\* leaves the table as it was. Nothing but a get of an expired key or a
\* clear ever removes an entry.
LazyEviction ==
    [][ /\ rout'.op = "get" =>
              LET k == rout'.key
                  held == k \in DOMAIN catalogCache
              IN  /\ ~held => rout'.result = NoValue /\ catalogCache' = catalogCache
                  /\ (held /\ now > catalogCache[k].expires) =>
                        /\ rout'.result = NoValue
                        /\ catalogCache' = [j \in DOMAIN catalogCache \ {k} |-> catalogCache[j]]
                  /\ (held /\ now <= catalogCache[k].expires) =>
                        /\ rout'.result = [hit |-> TRUE, value |-> loc.last[k]]
                        /\ catalogCache' = catalogCache
        /\ \A k \in DOMAIN catalogCache \ DOMAIN catalogCache' :
              \/ rout'.op = "clear"
              \/ rout'.op = "get" /\ rout'.key = k /\ now > catalogCache[k].expires ]_vars

\* C15 at work: a get has just removed an expired entry and answered absent
LazyEvictionSeen ==
    /\ pc = "cache" /\ rout.op = "get"
    /\ rout.had /\ rout.result = NoValue
    /\ rout.key \notin DOMAIN catalogCache

\* C16: set stores the value under the key with expiry now + the override
\* whenever an override is supplied, whatever its value, and now + the
\* default TTL of the cache only when none is supplied.
OverrideAlwaysUsed ==
    (pc = "cache" /\ rout.op = "set") =>
        /\ rout.key \in DOMAIN catalogCache
        /\ catalogCache[rout.key] =
              [value |-> rout.value,
               expires |-> rout.at + (IF rout.override.given THEN rout.override.ttl
                                      ELSE CATALOG_TTL)]

-----------------------------------------------------------------------------
(* properties of the cached sequence under overlapping calls, under SpecRace *)

\* a call has just written the cache key while its entry was live
LiveWrite == pc = "race" /\ rout.op = "write" /\ rout.had

\* C17 as stated: every write to a live entry, from any caller, stores a
\* sequence of which the sequence cached before is a prefix.
AppendOnly ==
    LiveWrite => IsPrefix(rout.before, rout.after)

\* C17: a write to a live entry stores a sequence of which the sequence
\* cached before is a prefix, provided no other call has written the key
\* since the writing call read the cache or last wrote it.
AppendOnlyAlone ==
    (LiveWrite /\ rout.alone) => IsPrefix(rout.before, rout.after)

\* C17 at work: a call has added a page to a cached sequence that was not
\* empty, while another call is in progress
AppendOnlyAloneSeen ==
    /\ LiveWrite /\ rout.alone
    /\ rout.before # <<>>
    /\ Len(rout.after) > Len(rout.before)
    /\ \E c \in Callers \ {rout.by} : loc.t[c].at \in {"catalog", "fetching", "lookup"}

-----------------------------------------------------------------------------
(* properties of the batches of the catalog builder, under Spec *)

\* C21: every iteration of the loop of fetchCatalog takes as its batch the
\* run of consecutive page numbers that starts at
\* floor(accumulated length / ITEMS_PER_PAGE) + 1, with at most
\* CONCURRENT_PAGES pages and none above MAX_PAGES; it fetches those pages or
\* none, and when the batch is empty it leaves the loop with no launch.
BatchPages ==
    [][ (pc = "catalog" /\ NeedMore(loc.allItems, req.skip)) =>
           LET after == IF pc' = "catalog" THEN loc' ELSE ret'
               first == (Len(loc.allItems) \div ITEMS_PER_PAGE) + 1
           IN  /\ Len(after.pages) <= CONCURRENT_PAGES
               /\ \A i \in 1..Len(after.pages) :
                     after.pages[i] = first + i - 1 /\ after.pages[i] <= MAX_PAGES
               /\ after.fetches - loc.fetches \in {0, Len(after.pages)}
               /\ after.pages = <<>> =>
                     pc' = "idle" /\ after.launches = loc.launches ]_vars

\* C21 at work: the second batch of a call is cut at the ceiling
BatchPagesSeen ==
    /\ CatalogDone
    /\ ret.batches = 2
    /\ ret.pages = <<MAX_PAGES>>
    /\ ret.fetches = MAX_PAGES

\* C22: the sequence cached for a namespace never holds more than
\* MAX_PAGES * ITEMS_PER_PAGE entries, whatever the catalog requests and
\* lookups made and whatever number of records the pages yield.
AccumulatedBounded ==
    \A k \in DOMAIN catalogCache :
        Len(catalogCache[k].value) <= MAX_PAGES * ITEMS_PER_PAGE

\* C23: when every page of a batch yields no record, the loop stops, the
\* cache is left as it was, no error leaves the call, and the call returns
\* the requested window of what had accumulated.
EmptyBatchStops ==
    [][ (pc = "catalog" /\ pc' = "idle" /\ ret'.outcome = "empty") =>
           /\ catalogCache' = catalogCache
           /\ ret'.status = "ok"
           /\ ret'.value = CatalogSlice(loc.allItems, req.skip) ]_vars

\* C24: when a batch meets an error (the launch fails, or a fetchPage call
\* rejects), the loop stops without writing the cache, so what earlier
\* batches cached stays as it was, and the caller receives the requested
\* window of what had accumulated before that batch.
FailedBatchStops ==
    [][ (pc = "catalog" /\ pc' = "idle" /\ ret'.outcome \in {"launch", "error"}) =>
           /\ catalogCache' = catalogCache
           /\ ret'.status = "ok"
           /\ ret'.value = CatalogSlice(loc.allItems, req.skip) ]_vars

-----------------------------------------------------------------------------
(* properties of fetchPage, under SpecPage *)

\* fetchPage has run with its page opened
PageFetched == pc = "page" /\ rout.status = "done" /\ rin.e.newPage

\* the first navigation attempt answered with status 200, or 0
FirstOk(nav) ==
    IF \E i \in 1..3 : nav[i] = "200"
    THEN CHOOSE i \in 1..3 : nav[i] = "200" /\ \A j \in 1..(i - 1) : nav[j] # "200"
    ELSE 0

\* C25: fetchPage makes at most 3 navigation attempts and stops at the first
\* one answered with status 200; it waits once between two consecutive
\* attempts and not after the last; after 3 failed attempts, non-200
\* responses and thrown navigations in any mix, it returns no record and
\* does not throw, so the batch does not fail and keeps the records of its
\* other pages.
NavigationRetries ==
    PageFetched =>
        LET k == FirstOk(rin.e.nav)
        IN  /\ rout.flow.attempts <= 3
            /\ k # 0 => rout.flow.attempts = k /\ rout.flow.delays = k - 1
            /\ k = 0 =>
                  /\ rout.flow.attempts = 3 /\ rout.flow.delays = 2
                  /\ ~rout.got.threw /\ rout.got.items = <<>>
                  /\ ~rout.batch.failed
                  /\ rout.batch.pageItems = ExtractAll(OtherDom, "popular")

\* C25 at work: a non-200 answer, then two thrown navigations, and the batch
\* keeps the record of its other page
NavigationRetriesSeen ==
    /\ PageFetched
    /\ rin.e.nav = <<"500", "err", "err">>
    /\ rout.flow.attempts = 3
    /\ rout.batch.pageItems # <<>>

WaitTimeoutTolerated ==
    (PageFetched /\ FirstOk(rin.e.nav) # 0 /\ ~rin.e.wait) =>
        /\ ~rout.got.threw
        /\ ~rout.batch.failed
        /\ rin.e.evalOk => rout.got.items = ExtractAll(rin.dom, "popular")
        /\ rout.got = FetchPage("popular", rin.dom, [rin.e EXCEPT !.wait = TRUE])

\* C27 at work: the wait timed out and the page still gave its records
WaitTimeoutToleratedSeen ==
    /\ PageFetched
    /\ FirstOk(rin.e.nav) # 0 /\ ~rin.e.wait
    /\ rout.got.items # <<>>
    /\ Len(rout.batch.pageItems) > Len(rout.got.items)

-----------------------------------------------------------------------------
(* properties of the request handler of the resolver, under SpecResolve *)

\* the resolver has run with its page opened, so that its handler was installed
Listening == pc = "study" /\ rout.status = "done" /\ rin.launch /\ rin.newPage

\* a URL that ends in a media extension, or has one right before its query
MediaExtension(url) ==
    \E i \in 1..Len(url) :
        /\ url[i] \in {".m3u8", ".mp4", ".mkv", ".avi", ".mov"}
        /\ (i = Len(url) \/ url[i + 1] = "?")

\* a URL that names none of the qualities
NamesNoQuality(url) ==
    \A i \in 1..Len(url) : url[i] \notin {"2160", "1080", "720", "480", "360"}

\* C28: every intercepted request is answered once: a request whose URL has
\* a media extension is aborted and not continued, whether its quality is
\* recognised or not, and every other request is continued and not aborted.
AnsweredOnce ==
    Listening =>
        \A i \in 1..Len(Requests(rin)) :
            /\ Len(rout.answers[i]) = 1
            /\ rout.answers[i][1] =
                  IF MediaExtension(Requests(rin)[i]) THEN "abort" ELSE "continue"

\* C28 at work: a media request of no known quality, a media request of a
\* known one and a request for a script have been answered
AnsweredOnceSeen ==
    /\ Listening
    /\ \E i, j, k \in 1..Len(Requests(rin)) :
          /\ MediaExtension(Requests(rin)[i]) /\ NamesNoQuality(Requests(rin)[i])
          /\ MediaExtension(Requests(rin)[j]) /\ ~NamesNoQuality(Requests(rin)[j])
          /\ ~MediaExtension(Requests(rin)[k])
          /\ rout.answers[i] = <<"abort">> /\ rout.answers[k] = <<"continue">>

\* a quality label that reads 'Unknown'
UnknownLabel(q) == q = <<>> \/ q = <<"Unknown">>

\* C29: a media request whose URL names none of 2160, 1080, 720, 480, 360 is
\* not recorded, and no stream labelled 'Unknown' is in the streams map, in
\* the list the resolver returns or in the result it caches.
NoUnknownStream ==
    Listening =>
        /\ \A i \in 1..Len(rout.streams) :
              /\ ~UnknownLabel(rout.streams[i].key)
              /\ ~UnknownLabel(rout.streams[i].val.quality)
              /\ \A j \in 1..Len(Requests(rin)) :
                    NamesNoQuality(Requests(rin)[j]) =>
                        rout.streams[i].val.url # Requests(rin)[j]
        /\ \A i \in 1..Len(rout.out.result.streams) :
              ~UnknownLabel(rout.out.result.streams[i].title)

\* C29 at work: the page asked for a media file of no known quality and for
\* one of a known quality, and the result with the one stream was cached
NoUnknownStreamSeen ==
    /\ Listening /\ rout.out.cached
    /\ \E j \in 1..Len(Requests(rin)) :
          MediaExtension(Requests(rin)[j]) /\ NamesNoQuality(Requests(rin)[j])
    /\ Len(rout.out.result.streams) = 1

-----------------------------------------------------------------------------
(* properties of the URL repair, under SpecUrl *)

\* the site origin immediately followed by an absolute https URL
DoubleOrigin(url) ==
    /\ Len(url) >= 3
    /\ url[1] = "https://" /\ url[2] = "hstream.moe" /\ url[3] = "https://"

\* the site's host name run into an 'https://' somewhere in the URL
HostJoined(url) ==
    \E i \in 1..(Len(url) - 1) : url[i] = "hstream.moe" /\ url[i + 1] = "https://"

\* C30: the repair maps a detail URL made of the site origin immediately
\* followed by an absolute URL U to U itself, so that it goes under the
\* cache key of U and is navigated as U, and leaves a URL without that
\* artifact unchanged.
RepairGivesCleanUrl ==
    (pc = "url" /\ rout.status = "done") =>
        /\ DoubleOrigin(rin.url) =>
              /\ rout.url = SubSeq(rin.url, 3, Len(rin.url))
              /\ rout.key = DetailsKey(SubSeq(rin.url, 3, Len(rin.url)))
        /\ ~HostJoined(rin.url) => rout.url = rin.url

-----------------------------------------------------------------------------
(* properties of the lookup loop of the meta and stream handlers, under Spec *)

\* the page the lookup would start at if it skipped what the cache holds
PageAfterCached(cachedItems) == (Len(cachedItems) \div ITEMS_PER_PAGE) + 1

\* C31: when the identity asked for is not in the cached sequence, the lookup
\* starts at page floor(cached length / ITEMS_PER_PAGE) + 1, so that it
\* fetches no page whose records are in the cache; it fetches one page per
\* iteration, in increasing order, pushes what the page yields onto the
\* cached sequence, stores it, and looks for the identity after every page.
LookupStartsAfterCached ==
    [][ /\ (pc = "idle" /\ pc' = "lookup") =>
              loc'.pageNum = PageAfterCached(loc'.cachedItems)
        /\ (pc = "lookup" /\ pc' \in {"lookup", "resolve"}) =>
              LET yield == SubSeq(loc'.cachedItems, Len(loc.cachedItems) + 1,
                                  Len(loc'.cachedItems))
              IN  /\ loc'.fetches = loc.fetches + 1
                  /\ yield = ExtractAll(PageDom(site, loc.pageNum), req.id[2])
                  /\ loc'.cachedItems = loc.cachedItems \o yield
                  /\ catalogCache'[loc.key].value = loc'.cachedItems
                  /\ pc' = "resolve" <=> FindIndex(yield, req.id) # 0
                  /\ pc' = "lookup" => loc'.pageNum = loc.pageNum + 1 ]_vars

-----------------------------------------------------------------------------
(* properties of overlapping catalog calls, under SpecRace *)

\* caller c is making, or has made, a catalog call
CatalogCaller(c) == loc.t[c].at \in {"catalog", "fetching", "done"} /\ loc.t[c].id = <<>>

\* the run of page numbers a batch takes when the call has accumulated items
BatchOf(items) ==
    LET first == (Len(items) \div ITEMS_PER_PAGE) + 1
    IN  [i \in 1..Min(CONCURRENT_PAGES, MAX_PAGES - first + 1) |-> first + i - 1]

\* C32: overlapping catalog calls on one namespace do not share a crawl. Each
\* call decides on its next batch from the sequence it has accumulated
\* itself, whatever the other call is doing or has cached: it goes on while
\* its own sequence is short of the window, takes the pages that follow its
\* own sequence (so two calls that found the key uncached both take the pages
\* from 1 on), launches one session of its own per batch, and writes to the
\* cache its own sequence with the batch appended, replacing what is cached.
OwnCrawl ==
    [][ \A c \in Callers :
          LET own == loc.heap[loc.t[c].obj]
          IN  /\ (loc.t[c].at = "catalog" /\ loc'.t[c].at = "done") =>
                    ~(Len(own) < loc.t[c].skip + ITEMS_PER_PAGE
                        /\ Len(own) < MAX_PAGES * ITEMS_PER_PAGE)
              /\ (loc.t[c].at = "catalog" /\ loc'.t[c].at = "fetching") =>
                    /\ loc'.t[c].pages = BatchOf(own)
                    /\ (loc.t[c].miss /\ loc.t[c].launches = 0) =>
                          loc'.t[c].pages = [i \in 1..CONCURRENT_PAGES |-> i]
              /\ (loc.t[c].at = "fetching" /\ loc'.t[c].at # "fetching") =>
                    /\ loc'.t[c].launches \in {loc.t[c].launches, loc.t[c].launches + 1}
                    /\ catalogCache' # catalogCache =>
                          /\ loc'.t[c].launches = loc.t[c].launches + 1
                          /\ catalogCache'[RaceKey].value = loc'.t[c].obj
                          /\ loc'.t[c].obj # loc.t[c].obj
                          /\ IsPrefix(own, loc'.heap[loc'.t[c].obj])
                          /\ Len(loc'.heap[loc'.t[c].obj]) > Len(own)
                          /\ rout'.after = loc'.heap[loc'.t[c].obj] ]_vars

\* C32 at work: two catalog calls found the key uncached, each launched a
\* session, and the write of one has just replaced a cached sequence that
\* held records the sequence now cached lacks
OwnCrawlSeen ==
    /\ pc = "race" /\ rout.op = "write" /\ rout.had
    /\ \A c \in Callers : CatalogCaller(c) /\ loc.t[c].miss /\ loc.t[c].launches >= 1
    /\ \E i \in 1..Len(rout.before) :
          \A j \in 1..Len(rout.after) : rout.after[j] # rout.before[i]
    /\ loc.heap[catalogCache[RaceKey].value] = rout.after

-----------------------------------------------------------------------------
(* properties of the concurrent page fetches of a batch, under SpecBatch *)

\* the fetches of the current batch that hold the context x
UsersOf(x) == {i \in 1..Len(loc.f) : loc.f[i].ctx = x.id}

\* C33: at any moment of a call of fetchCatalog at most CONCURRENT_PAGES
\* page contexts are open, all of them in the one session the call has open,
\* and each is used by exactly one page fetch: a batch has at most
\* CONCURRENT_PAGES fetches in flight and no two of them hold the same
\* context.
ContextsIsolated ==
    pc = "batch" =>
        /\ Cardinality(loc.sessions) <= 1
        /\ Cardinality(loc.open) <= CONCURRENT_PAGES
        /\ Len(loc.f) <= CONCURRENT_PAGES
        /\ \A x \in loc.open : x.session \in loc.sessions /\ Cardinality(UsersOf(x)) = 1
        /\ \A i \in 1..Len(loc.f) :
              /\ loc.f[i].at = "open" => loc.f[i].ctx # 0
              /\ \A j \in 1..Len(loc.f) :
                    (i # j /\ loc.f[i].ctx # 0) => loc.f[i].ctx # loc.f[j].ctx

\* C33 at work: the second batch of a call has CONCURRENT_PAGES fetches in
\* flight, each on a context of its own in the second session
ContextsIsolatedSeen ==
    /\ pc = "batch" /\ loc.at = "awaiting"
    /\ loc.batches = 2 /\ loc.sessions = {2}
    /\ Cardinality(loc.open) = CONCURRENT_PAGES
    /\ \A i \in 1..Len(loc.f) : loc.f[i].at = "open"
    /\ \A x \in loc.open : x.session = 2

\* the records of listing page p, in the order fetchPage extracts them
PageRecords(p) == ExtractAll(PageDom(site, p), "popular")

\* C34: a batch appends its records by ascending page number and, within a
\* page, in the order of extraction, whatever the order in which its page
\* fetches complete; nothing is written to the cache before every page
\* fetch of the batch has returned.
BatchOrder ==
    [][ (pc = "batch" /\ catalogCache' # catalogCache) =>
           LET n == Len(loc.f)
               added == SubSeq(loc'.allItems, Len(loc.allItems) + 1, Len(loc'.allItems))
               \* where the records of the i-th page begin in `added`
               offset(i) == Len(Flat([k \in 1..(i - 1) |-> loc.f[k].items]))
           IN  /\ \A i \in 1..n : loc.f[i].at = "done"
               /\ \A i \in 1..n : loc.f[i].items \in {<<>>, PageRecords(loc.pages[i])}
               /\ \A i, j \in 1..n : i < j => loc.pages[i] < loc.pages[j]
               /\ loc'.allItems = loc.allItems \o added
               /\ Len(added) = offset(n + 1)
               /\ \A i \in 1..n : \A k \in 1..Len(loc.f[i].items) :
                     added[offset(i) + k] = loc.f[i].items[k]
               /\ catalogCache'[BatchKey].value = loc'.allItems ]_vars

\* C34 at work: the fetch of the second page of a batch returned before the
\* fetch of the first, both with records, and the batch was stored
BatchOrderSeen ==
    /\ pc = "batch" /\ rout.op = "settle" /\ rout.stored
    /\ rout.settled = <<2, 1>>
    /\ rout.f[1].items # <<>> /\ rout.f[2].items # <<>>
    /\ rout.f[1].items # rout.f[2].items
    /\ catalogCache[BatchKey].value = loc.allItems

-----------------------------------------------------------------------------
(* further properties of the caches under the handlers, under Spec *)

\* C35: a cached value changes only by a set that replaces its entry: a
\* handler that is answered from a live stream-cache entry leaves the cached
\* resolver result as it was, the stream handler included, so that the
\* resolver gives the same cached content before and after a stream request.
CachedValueFrozen ==
    [][ (LiveDetails /\ pc' = "idle") =>
           /\ ResolveKey \in DOMAIN streamCache'
           /\ streamCache'[ResolveKey].value = streamCache[ResolveKey].value ]_vars

\* C36: while the entry of a namespace is live no page is fetched twice for
\* it: every batch of a call after its first starts above the last page of
\* the batch before it, whose records the call has just cached, also when
\* pages yield fewer than ITEMS_PER_PAGE records or a page came back empty.
BatchesAdvance ==
    [][ (pc = "catalog" /\ loc.pages # <<>> /\ NeedMore(loc.allItems, req.skip)) =>
           LET after == IF pc' = "catalog" THEN loc' ELSE ret'
           IN  after.pages # <<>> => after.pages[1] > loc.pages[Len(loc.pages)] ]_vars

\* the call that has ended resolved the item that the call before it failed
\* to resolve
AfterFailedResolve ==
    /\ LookupEnded /\ "degraded" \in DOMAIN ret
    /\ prev.kind \in {"meta", "stream"} /\ prev.degraded
    /\ prev.link = ret.link

\* C37: the degraded result is never in the stream cache: a resolution that
\* fails stores nothing under its key, so the next resolution of the same
\* detail URL is not answered from the cache but launches a session and
\* tries again.
DegradedNotCached ==
    /\ \A k \in DOMAIN streamCache : streamCache[k].value.title # "Unknown"
    /\ (LookupEnded /\ "degraded" \in DOMAIN ret /\ ret.degraded) =>
          DetailsKey(NormalizeUrl(ret.link)) \notin DOMAIN streamCache
    /\ AfterFailedResolve => ~ret.fromCache /\ ret.rlaunched = 1

\* C37 at work: a resolution failed, and the next one of the same detail
\* URL launched a session, succeeded and was cached
DegradedNotCachedSeen ==
    /\ AfterFailedResolve
    /\ ret.status = "ok" /\ ~ret.degraded /\ ~ret.fromCache
    /\ ret.rlaunched = 1
    /\ DetailsKey(NormalizeUrl(ret.link)) \in DOMAIN streamCache

-----------------------------------------------------------------------------
(* properties of the age of the records served, under SpecAge *)

\* C38: no record is served from the catalog cache more than CATALOG_TTL
\* after the crawl that fetched it, whatever catalog requests and lookups
\* have since appended to its namespace.
ServedWithinTtl ==
    pc = "age" =>
        \A i \in 1..Len(rout.served) : rout.at <= rout.served[i].fetched + CATALOG_TTL
====
